---- MODULE Spec2Model ----
(***************************************************************************)
(* A model of the top-down beam-search auto-scheduler                      *)
(* (AutoScheduleTopDown): the function DAG, the partial-schedule tree,     *)
(* bounds propagation, the cost model, the child enumerator and the        *)
(* beam-search driver.                                                     *)
(*                                                                         *)
(* Conventions.                                                            *)
(*  - A Function is identified by its name (a string); the undefined       *)
(*    Function of the root node is Undefined.                              *)
(*  - C++ vectors are sequences; C++ index i is sequence index i + 1.      *)
(*  - std::map / std::set keyed by Function are TLA+ functions with a      *)
(*    finite domain / finite sets.                                         *)
(*  - double values are fixed-point integers in units of 1 / CostScale.    *)
(*  - The symbolic bounds of an edge (Halide Exprs in the consumer's       *)
(*    min/max variables) are affine: per producer dimension a record       *)
(*    [dim, mul, lo, hi] standing for the interval                         *)
(*    [mul * consumer.dim.min + lo, mul * consumer.dim.max + hi].          *)
(*  - A failed internal_assert / user_assert ends the program; the         *)
(*    operation's value is then a record [error |-> message] that every    *)
(*    caller hands on, and the variable failure records the message.       *)
(*  - Each operator refers to a value that is costly to compute only once  *)
(*    (it is handed on as a parameter, e.g. through AndThen).              *)
(***************************************************************************)
EXTENDS Integers, Sequences, FiniteSets, TLC

VARIABLES program, dag, root, cost, num_funcs_scheduled, failure, last,
          beam_size, q, pending, pc, pass, returned, directives

vars == <<program, dag, root, cost, num_funcs_scheduled, failure, last,
          beam_size, q, pending, pc, pass, returned, directives>>

(***************************************************************************)
(* Bounds of the model and program constants.                              *)
(***************************************************************************)
\* Pipelines 1..NumPipelines of the catalogue Pipelines are explored.
NumPipelines == 11

\* Beam sizes 1..MaxBeam are explored by the beam-search specification.
MaxBeam == 2

\* The pass counter of optimal_schedule saturates here.
MaxPasses == 5

\* The resolution of the fixed-point numbers that stand for doubles.
CostScale == 1000

\* generate_tilings: the innermost dimension keeps an inner extent >= 16.
MinInnerExtent == 16

\* cost: the innermost loop is vectorized in chunks of 16.
VectorSize == 16

\* compute_in_tiles: a root-level tiling needs at least 16 outer iterations.
MinRootParallelism == 16

Undefined == ""

Min(a, b) == IF a < b THEN a ELSE b
Max(a, b) == IF a > b THEN a ELSE b

\* (a + b - 1) / b on positive integers, as the code writes it
CeilDiv(a, b) == (a + b - 1) \div b

RECURSIVE Product(_)
Product(s) == IF s = <<>> THEN 1 ELSE Head(s) * Product(Tail(s))

RECURSIVE Flatten(_)
Flatten(ss) == IF ss = <<>> THEN <<>> ELSE Head(ss) \o Flatten(Tail(ss))

\* the sub-sequence of s whose elements satisfy Test, in order
Filter(s, Test(_)) == SelectSeq(s, Test)

\* A failed assertion ends the program.  The value an operation would have
\* returned is then the record [error |-> message], which every operation
\* that receives it hands on.
BoundsError(msg) == [error |-> msg]
IsError(b) == "error" \in DOMAIN b

\* K applied to the value r of an operation, unless r is a failed assertion
AndThen(r, K(_)) == IF IsError(r) THEN r ELSE K(r)

\* the first element of the sequence s that is an error, or ok if none is
FirstError(s, ok) ==
    IF \E k \in 1..Len(s) : IsError(s[k])
    THEN s[CHOOSE k \in 1..Len(s) : IsError(s[k]) /\ \A j \in 1..(k - 1) : ~IsError(s[j])]
    ELSE ok

(***************************************************************************)
(* FunctionDAG.  A pipeline of the catalogue is the DAG the constructor    *)
(* builds: nodes in reverse realization order, edges, and for each output  *)
(* the estimates of its schedule.                                          *)
(***************************************************************************)
Node(f, dims, compute, compute_if_inlined, memory, estimates) ==
    [func |-> f, dimensions |-> dims, compute |-> compute,
     compute_if_inlined |-> compute_if_inlined, memory |-> memory,
     estimates |-> estimates]

Edge(producer, consumer, bounds, ncalls) ==
    [producer |-> producer, consumer |-> consumer, bounds |-> bounds,
     calls |-> ncalls]

\* the interval [mul * c.dim.min + lo, mul * c.dim.max + hi]
Aff(dim, mul, lo, hi) == [dim |-> dim, mul |-> mul, lo |-> lo, hi |-> hi]

\* A Func of the pipeline as the constructor sees it: the number of leaves
\* LeafCounter finds in its values, the bytes of its values, and per name
\* it loads from (in the order of the map boxes_required returns, by name)
\* the box required and the number of calls; loads may name input images.
Func(name, dims, leaves, bytes, loads, estimates, updates) ==
    [name |-> name, dimensions |-> dims, leaves |-> leaves, bytes |-> bytes,
     loads |-> loads, estimates |-> estimates, updates |-> updates]

Load(name, bounds, ncalls) == [name |-> name, bounds |-> bounds, calls |-> ncalls]

\* MachineParams(parallelism, last_level_cache_size, balance), the cache
\* size given by its logarithm in fixed point
MachineParams(parallelism, log_cache_size, balance) ==
    [parallelism |-> parallelism, log_last_level_cache_size |-> log_cache_size,
     balance |-> balance]

\* std::log(16 * 1024 * 1024) = 16.636 in units of 1 / 1000
LogCacheSize == 16636

\* env[name]
EnvAt(env, name) ==
    env[CHOOSE k \in 1..Len(env) : env[k].name = name]

\* env.find(name) != env.end()
InEnv(env, name) == \E k \in 1..Len(env) : env[k].name = name

\* realization_order: every Func of env once, each after the Funcs it loads from
IsRealizationOrder(env, order) ==
    /\ Len(order) = Len(env)
    /\ \A k \in 1..Len(env) : \E i \in 1..Len(order) : order[i] = env[k].name
    /\ \A i \in 1..Len(order) : \A j \in 1..Len(EnvAt(env, order[i]).loads) :
           InEnv(env, EnvAt(env, order[i]).loads[j].name)
               => \E m \in 1..(i - 1) : order[m] = EnvAt(env, order[i]).loads[j].name

\* a constructor that walks the realization order forwards
NodeOrderForwards(order) == order

\* line 85: for (size_t i = order.size(); i > 0; i--) visits order[i-1]
NodeOrder(order) == [i \in 1..Len(order) |-> order[Len(order) + 1 - i]]

\* lines 144-156: the cost model of one Func
NodeOf(def, params) ==
    Node(def.name, def.dimensions,
         def.leaves * def.bytes,
         Max(0, def.leaves - def.dimensions) * def.bytes,
         (def.bytes * params.balance * CostScale * 1000)
             \div params.log_last_level_cache_size,
         def.estimates)

\* lines 183-198: the edges that lead to consumer, loads from input
\* images discarded
EdgesOf(env, consumer) ==
    LET IsFunc(l) == InEnv(env, l.name)
        kept == Filter(consumer.loads, IsFunc)
    IN [k \in 1..Len(kept) |->
           Edge(kept[k].name, consumer.name, kept[k].bounds, kept[k].calls)]

\* lines 85-201 for the Funcs named by walk, in that order
Built(env, params, walk) ==
    IF \E i \in 1..Len(walk) : EnvAt(env, walk[i]).updates
    THEN BoundsError("Update definitions not yet implemented")
    ELSE [nodes |-> [i \in 1..Len(walk) |-> NodeOf(EnvAt(env, walk[i]), params)],
          edges |-> Flatten([i \in 1..Len(walk) |-> EdgesOf(env, EnvAt(env, walk[i]))])]

\* FunctionDAG(outputs, params), with env and order as populate_environment
\* and realization_order return them
FunctionDAG(prog) == Built(prog.env, prog.params, NodeOrder(prog.order))

\* dag.outgoing_edges.at(f): the edges whose producer is f, in edge order
outgoing_edges(d, f) ==
    LET IsOut(e) == e.producer = f IN Filter(d.edges, IsOut)

\* dag.incoming_edges.at(f)
incoming_edges(d, f) ==
    LET IsIn(e) == e.consumer = f IN Filter(d.edges, IsIn)

\* dag.node_map.at(f)
node_map(d, f) ==
    LET i == CHOOSE i \in 1..Len(d.nodes) : d.nodes[i].func = f IN d.nodes[i]

(***************************************************************************)
(* generate_tilings(s, d, allow_splits)                                    *)
(***************************************************************************)
\* for (int outer = 1; outer <= s[d]; outer *= 2)
RECURSIVE OuterSweep(_, _, _, _, _)
OuterSweep(sd, d, outer, is_one, is_full) ==
    IF outer > sd THEN <<>>
    ELSE LET inner == CeilDiv(sd, outer) IN
         IF is_one /\ outer = 1 THEN OuterSweep(sd, d, outer * 2, is_one, is_full)
         ELSE IF is_full /\ outer = sd THEN OuterSweep(sd, d, outer * 2, is_one, is_full)
         ELSE IF outer > inner \/ (d = 0 /\ inner < MinInnerExtent) THEN <<>>
         ELSE <<outer>> \o OuterSweep(sd, d, outer * 2, is_one, is_full)

\* for (int inner = 1; inner < s[d]; inner *= 2)
RECURSIVE InnerSweep(_, _, _, _)
InnerSweep(sd, inner, is_one, is_full) ==
    IF inner >= sd THEN <<>>
    ELSE LET outer == CeilDiv(sd, inner) IN
         IF is_one /\ outer = 1 THEN InnerSweep(sd, inner * 2, is_one, is_full)
         ELSE IF is_full /\ outer = sd THEN InnerSweep(sd, inner * 2, is_one, is_full)
         ELSE IF inner >= outer THEN <<>>
         ELSE <<outer>> \o InnerSweep(sd, inner * 2, is_one, is_full)

\* the factors tried for dimension d after the partial tiling t
TilingFactors(s, d, t, allow_splits) ==
    LET last_dim == (d = Len(s) - 1)
        is_one   == last_dim /\ \A i \in 1..d : t[i] = 1
        is_full  == last_dim /\ \A i \in 1..d : t[i] = s[i]
        sd       == s[d + 1]
    IN IF ~allow_splits
       THEN (IF ~is_one THEN <<1>> ELSE <<>>)
            \o (IF sd # 1 /\ ~is_full THEN <<sd>> ELSE <<>>)
       ELSE OuterSweep(sd, d, 1, is_one, is_full)
            \o InnerSweep(sd, 1, is_one, is_full)

RECURSIVE generate_tilings(_, _, _)
generate_tilings(s, d, allow_splits) ==
    IF d = -1 THEN << <<>> >>
    ELSE LET v == generate_tilings(s, d - 1, allow_splits)
             Extend(t) == LET fs == TilingFactors(s, d, t, allow_splits)
                          IN [k \in 1..Len(fs) |-> Append(t, fs[k])]
         IN Flatten([j \in 1..Len(v) |-> Extend(v[j])])

(***************************************************************************)
(* PartialScheduleNode.  The field bounds holds the entries the code       *)
(* assigns (compute_here's single point, the region of a tile); entries    *)
(* that get_bounds only caches are recomputed here, to the same value.     *)
(***************************************************************************)
EmptyMap == [x \in {} |-> 0]

\* a default-constructed PartialScheduleNode
NewNode == [func |-> Undefined, innermost |-> FALSE, tileable |-> FALSE,
            size |-> <<>>, children |-> <<>>, inlined |-> EmptyMap,
            store_at |-> {}, bounds |-> EmptyMap]

is_root(n) == n.func = Undefined

MapPut(m, k, v) == [x \in DOMAIN m \cup {k} |-> IF x = k THEN v ELSE m[x]]

\* the constant interval an edge requires in one dimension of the
\* producer, with the consumer's region substituted for its min/max
EdgeInterval(a, c_region) ==
    << a.mul * c_region[a.dim][1] + a.lo, a.mul * c_region[a.dim][2] + a.hi >>

\* estimates[b.var] = {i_min, i_min + i_extent - 1}: the last estimate of
\* variable i is the one the map keeps
EstimateOf(est, i) ==
    LET k == CHOOSE k \in 1..Len(est) :
                 est[k].var = i /\ \A m \in (k + 1)..Len(est) : est[m].var # i
    IN << est[k].min, est[k].min + est[k].extent - 1 >>

\* the estimates branch of get_bounds: an output at the root
EstimateBounds(nd) ==
    IF \E i \in 1..nd.dimensions : \A k \in 1..Len(nd.estimates) : nd.estimates[k].var # i
    THEN BoundsError("Need an estimate")
    ELSE [region |-> [i \in 1..nd.dimensions |-> EstimateOf(nd.estimates, i)],
          min_points |-> Product([k \in 1..Len(nd.estimates) |-> nd.estimates[k].extent]),
          min_cost |-> Product([k \in 1..Len(nd.estimates) |-> nd.estimates[k].extent])
                       * nd.compute]

\* lines 499-504: the first consumer sets the interval, a later one is
\* merged into it with std::min on both ends
MergeInterval(old, new) == << Min(old[1], new[1]), Min(old[2], new[2]) >>

\* lines 491-505: one consumer's requirement added to [region, calls_if_inlined]
Expanded(acc, e, c_bounds, dims) ==
    [region |-> [i \in 1..dims |->
                    IF i > Len(acc.region) THEN EdgeInterval(e.bounds[i], c_bounds.region)
                    ELSE MergeInterval(acc.region[i],
                                       EdgeInterval(e.bounds[i], c_bounds.region))],
     calls_if_inlined |-> acc.calls_if_inlined + c_bounds.min_points * e.calls]

\* lines 507-513: the Bound made of the merged region
MergedBound(acc, nd) ==
    LET points_if_realized ==
            Product([i \in 1..nd.dimensions |-> acc.region[i][2] - acc.region[i][1] + 1])
    IN [region |-> acc.region,
        min_points |-> Min(points_if_realized, acc.calls_if_inlined),
        min_cost |-> Min(points_if_realized * nd.compute,
                         acc.calls_if_inlined * nd.compute_if_inlined)]

RECURSIVE get_bounds(_, _, _)
RECURSIVE ExpandBounds(_, _, _, _, _)

\* the loop over the outgoing edges of f (lines 481-506)
ExpandBounds(n, f, d, es, acc) ==
    IF es = <<>> THEN acc
    ELSE AndThen(get_bounds(n, Head(es).consumer, d),
                 LAMBDA c_bounds :
                     ExpandBounds(n, f, d, Tail(es),
                         Expanded(acc, Head(es), c_bounds, node_map(d, f).dimensions)))

get_bounds(n, f, d) ==
    IF f \in DOMAIN n.bounds THEN n.bounds[f]
    ELSE IF outgoing_edges(d, f) = <<>> /\ is_root(n) THEN EstimateBounds(node_map(d, f))
    ELSE IF outgoing_edges(d, f) = <<>> THEN BoundsError("No consumers")
    ELSE AndThen(ExpandBounds(n, f, d, outgoing_edges(d, f),
                              [region |-> <<>>, calls_if_inlined |-> 0]),
                 LAMBDA acc : MergedBound(acc, node_map(d, f)))

RECURSIVE calls(_, _, _)
calls(n, f, d) ==
    \/ \E i \in 1..Len(n.children) : calls(n.children[i], f, d)
    \/ \E k \in 1..Len(outgoing_edges(d, f)) :
          \/ outgoing_edges(d, f)[k].consumer = n.func
          \/ outgoing_edges(d, f)[k].consumer \in DOMAIN n.inlined

RECURSIVE computes(_, _)
computes(n, f) ==
    \/ ~is_root(n) /\ f = n.func
    \/ f \in DOMAIN n.inlined
    \/ \E i \in 1..Len(n.children) : computes(n.children[i], f)

\* counting the calls without the number of inlined calls of the consumer
RECURSIVE InlinedCallsUnweighted(_, _, _)
InlinedCallsUnweighted(n, f, es) ==
    IF es = <<>> THEN 0
    ELSE (IF Head(es).consumer \in DOMAIN n.inlined THEN Head(es).calls ELSE 0)
         + (IF Head(es).consumer = n.func THEN Head(es).calls ELSE 0)
         + InlinedCallsUnweighted(n, f, Tail(es))

\* the calls an innermost node makes to f (lines 593-602)
RECURSIVE InlinedCalls(_, _, _)
InlinedCalls(n, f, es) ==
    IF es = <<>> THEN 0
    ELSE (IF Head(es).consumer \in DOMAIN n.inlined
          THEN n.inlined[Head(es).consumer] * Head(es).calls ELSE 0)
         + (IF Head(es).consumer = n.func THEN Head(es).calls ELSE 0)
         + InlinedCalls(n, f, Tail(es))

\* inline_func that forgets to record the calls
InlinedNowhere(n, f, ncalls) == n.inlined

\* lines 592-606: result.inlined[f] = calls, if there are any
InlinedHere(n, f, ncalls) ==
    IF n.innermost /\ ncalls # 0 THEN MapPut(n.inlined, f, ncalls) ELSE n.inlined

RECURSIVE inline_func(_, _, _)
inline_func(n, f, d) ==
    [n EXCEPT !.children = [i \in 1..Len(n.children) |->
                               IF calls(n.children[i], f, d)
                               THEN inline_func(n.children[i], f, d)
                               ELSE n.children[i]],
              !.inlined = InlinedHere(n, f, InlinedCalls(n, f, outgoing_edges(d, f)))]

\* a fresh leaf that cannot be tiled later
NewLeafNotTileable(f, nd, b) ==
    [NewNode EXCEPT !.func = f, !.innermost = TRUE, !.tileable = FALSE,
        !.size = [i \in 1..nd.dimensions |-> b.region[i][2] - b.region[i][1] + 1],
        !.bounds = MapPut(EmptyMap, f,
                      [region |-> [i \in 1..nd.dimensions |->
                                      << b.region[i][1], b.region[i][1] >>],
                       min_points |-> 1,
                       min_cost |-> nd.compute])]

\* the fresh leaf compute_here appends, covering the bounds b
NewLeaf(f, nd, b) ==
    [NewNode EXCEPT !.func = f, !.innermost = TRUE, !.tileable = TRUE,
        !.size = [i \in 1..nd.dimensions |-> b.region[i][2] - b.region[i][1] + 1],
        !.bounds = MapPut(EmptyMap, f,
                      [region |-> [i \in 1..nd.dimensions |->
                                      << b.region[i][1], b.region[i][1] >>],
                       min_points |-> 1,
                       min_cost |-> nd.compute])]

compute_here(n, f, d) ==
    AndThen(get_bounds(n, f, d),
            LAMBDA b : [n EXCEPT !.children = Append(n.children, NewLeaf(f, node_map(d, f), b))])

\* tiling that rounds the inner extent down
TiledRoundingDown(n, t, parent_bounds) ==
    [func |-> n.func, innermost |-> FALSE, tileable |-> n.tileable,
     size |-> t,
     children |-> << [func |-> n.func, innermost |-> n.innermost,
                      tileable |-> n.tileable,
                      size |-> [i \in 1..Len(n.size) |-> Max(1, n.size[i] \div t[i])],
                      children |-> n.children, inlined |-> n.inlined,
                      store_at |-> n.store_at, bounds |-> n.bounds] >>,
     inlined |-> EmptyMap,
     store_at |-> {},
     bounds |-> MapPut(EmptyMap, n.func,
                   [n.bounds[n.func] EXCEPT !.region =
                       [i \in 1..Len(t) |->
                           << parent_bounds.region[i][1],
                              parent_bounds.region[i][1]
                              + CeilDiv(parent_bounds.region[i][2]
                                        - parent_bounds.region[i][1] + 1, t[i]) - 1 >>]])]

\* lines 676-708: the loop n tiled by t, its former body moved to one
\* inner child; parent_bounds is parent->get_bounds(func)
Tiled(n, t, parent_bounds) ==
    [func |-> n.func, innermost |-> FALSE, tileable |-> n.tileable,
     size |-> t,
     children |-> << [func |-> n.func, innermost |-> n.innermost,
                      tileable |-> n.tileable,
                      size |-> [i \in 1..Len(n.size) |-> CeilDiv(n.size[i], t[i])],
                      children |-> n.children, inlined |-> n.inlined,
                      store_at |-> n.store_at, bounds |-> n.bounds] >>,
     inlined |-> EmptyMap,
     store_at |-> {},
     bounds |-> MapPut(EmptyMap, n.func,
                   [n.bounds[n.func] EXCEPT !.region =
                       [i \in 1..Len(t) |->
                           << parent_bounds.region[i][1],
                              parent_bounds.region[i][1]
                              + CeilDiv(parent_bounds.region[i][2]
                                        - parent_bounds.region[i][1] + 1, t[i]) - 1 >>]])]

TileNode(n, t, parent, d) ==
    AndThen(get_bounds(parent, n.func, d), LAMBDA parent_bounds : Tiled(n, t, parent_bounds))

\* Store putting f in the store_at of the last child
StoreInLastChild(n, f) ==
    IF n.children = <<>> THEN n
    ELSE [n EXCEPT !.children[Len(n.children)].store_at = @ \cup {f}]

\* r.store_at.insert(f)
Store(n, f) == [n EXCEPT !.store_at = @ \cup {f}]

\* if (!in_realization) r.store_at.insert(f)
StoreUnless(in_realization, n, f) ==
    IF in_realization \/ IsError(n) THEN n ELSE Store(n, f)

\* compute_in_tiles without the check of lines 666-673
NeverInsufficient(parent, t) == FALSE

\* lines 666-673: is the tiling t skipped?
InsufficientParallelism(parent, t) ==
    is_root(parent) /\ Product(t) < MinRootParallelism

ReplaceLast(s, x) == [s EXCEPT ![Len(s)] = x]

\* lines 727-735: each way v[k] of computing f in the inner loop, put in
\* place of the last child of store_at_here
Slid(store_at_here, v) ==
    [k \in 1..Len(v) |->
        IF IsError(v[k]) THEN v[k]
        ELSE [store_at_here EXCEPT !.children =
                 ReplaceLast(@, [v[k] EXCEPT !.tileable = FALSE])]]

\* lines 751-761: each way v[k] of computing f in the child, put in its place in r
Pushed(r, child, v) ==
    [k \in 1..Len(v) |->
        IF IsError(v[k]) THEN v[k] ELSE [r EXCEPT !.children[child] = v[k]]]

\* the children of n that call f
Callers(n, f, d) == {i \in 1..Len(n.children) : calls(n.children[i], f, d)}

\* lines 635-644: the last child that calls f (0: none)
FuseChild(n, f, d) ==
    IF Callers(n, f, d) = {} THEN 0
    ELSE CHOOSE i \in Callers(n, f, d) : \A j \in Callers(n, f, d) : j <= i

RECURSIVE compute_in_tiles(_, _, _, _, _)

\* lines 710-736: what the tiled loop outer contributes to the result
TiledOptions(f, d, in_realization, outer) ==
    IF IsError(outer) THEN << outer >>
    ELSE << StoreUnless(in_realization, compute_here(outer, f, d), f) >>
         \o (IF in_realization THEN <<>>
             ELSE Slid(Store(outer, f),
                       compute_in_tiles(outer.children[1], f, d, Store(outer, f), TRUE)))

\* lines 665-737: what one tiling t contributes to the result
TileOptions(n, f, d, parent, in_realization, t) ==
    IF InsufficientParallelism(parent, t) THEN <<>>
    ELSE TiledOptions(f, d, in_realization, TileNode(n, t, parent, d))

\* lines 661-738: the loop over the tilings
AllTileOptions(n, f, d, parent, in_realization, tilings) ==
    Flatten([k \in 1..Len(tilings) |->
                TileOptions(n, f, d, parent, in_realization, tilings[k])])

\* PushOptions with storage also left at the root
PushOptionsStoringAtRoot(n, f, d, in_realization, child, store_here) ==
    IF store_here /\ in_realization THEN <<>>
    ELSE Pushed(IF store_here THEN Store(n, f) ELSE n, child,
                compute_in_tiles(n.children[child], f, d, n, store_here))

\* lines 741-762: push the computation into the one child that calls f
PushOptions(n, f, d, in_realization, child, store_here) ==
    IF store_here /\ (in_realization \/ is_root(n)) THEN <<>>
    ELSE Pushed(IF store_here THEN Store(n, f) ELSE n, child,
                compute_in_tiles(n.children[child], f, d, n, store_here))

\* line 740: for (int store_here = 0; store_here < 2; store_here++)
BothPushOptions(n, f, d, in_realization, child) ==
    IF child > 0 /\ Cardinality(Callers(n, f, d)) = 1
    THEN PushOptions(n, f, d, in_realization, child, FALSE)
         \o PushOptions(n, f, d, in_realization, child, TRUE)
    ELSE <<>>

compute_in_tiles(n, f, d, parent, in_realization) ==
    << StoreUnless(in_realization, compute_here(n, f, d), f) >>
    \o (IF outgoing_edges(d, f) = <<>> THEN <<>>
        ELSE (IF n.tileable
              THEN AllTileOptions(n, f, d, parent, in_realization,
                       generate_tilings(n.size, Len(n.size) - 1, ~in_realization))
              ELSE <<>>)
             \o BothPushOptions(n, f, d, in_realization, FuseChild(n, f, d)))

(***************************************************************************)
(* The cost model.  compute and compute_if_inlined are whole numbers       *)
(* (leaf counts times bytes per element) and stay integers; memory, the    *)
(* overcompute factors, logarithms and costs are fixed-point.              *)
(***************************************************************************)
\* the largest k with den * 2^k <= num, for num >= den > 0
RECURSIVE Log2Floor(_, _)
Log2Floor(num, den) == IF num < 2 * den THEN 0 ELSE 1 + Log2Floor(num, 2 * den)

RECURSIVE Pow2(_)
Pow2(k) == IF k = 0 THEN 1 ELSE 2 * Pow2(k - 1)

\* std::log(num / den) in fixed point, for num >= den > 0:
\* ln 2 * (k + m + 0.346 m (1 - m)) with num / den = 2^k (1 + m), 0 <= m < 1
LogAtLeastOne(num, den) ==
    LET k == Log2Floor(num, den)
        m == ((num - den * Pow2(k)) * CostScale) \div (den * Pow2(k))
        corr == (346 * ((m * (CostScale - m)) \div CostScale)) \div 1000
    IN (693 * (k * CostScale + m + corr)) \div 1000

\* std::log(num / den) in fixed point, for num, den > 0
Log(num, den) ==
    IF num >= den THEN LogAtLeastOne(num, den) ELSE 0 - LogAtLeastOne(den, num)

\* Subinstances without the rounding of lines 344-345
SubinstancesExact(n, instances) == instances * Product(n.size)

\* lines 338-354: the iterations of the loop body, rounded up to whole
\* vectors in an innermost loop
Subinstances(n, instances) ==
    LET ideal_subinstances == instances * Product(n.size)
    IN IF n.innermost
       THEN (ideal_subinstances \div n.size[1])
            * (((n.size[1] + (VectorSize - 1)) \div VectorSize) * VectorSize)
       ELSE ideal_subinstances

\* lines 347-353: overcompute[func] of an innermost loop, fixed-point
OvercomputeFactor(n, instances) ==
    LET ideal_subinstances == instances * Product(n.size)
        factor == (Subinstances(n, instances) * CostScale) \div ideal_subinstances
    IN (factor * (100 * n.size[1] + 1)) \div (100 * n.size[1])

Extents(region) == [i \in 1..Len(region) |-> region[i][2] - region[i][1] + 1]

\* FoldingDiscount walking the dimensions from 0 upwards
FoldingDiscountFromInnermost(er, ec) ==
    LET differ == {i \in 1..Len(er) : er[i] # ec[i]}
        first_differ == CHOOSE i \in differ : \A j \in differ : i <= j
    IN IF differ = {} THEN << 101, 100 >> ELSE << ec[first_differ], er[first_differ] >>

\* lines 393-401: the ratio of the extents in the last dimension where
\* they differ, as a fraction <<num, den>>; 1.01 where none differs
FoldingDiscount(er, ec) ==
    LET differ == {i \in 1..Len(er) : er[i] # ec[i]}
        last_differ == CHOOSE i \in differ : \A j \in differ : j <= i
    IN IF differ = {} THEN << 101, 100 >> ELSE << ec[last_differ], er[last_differ] >>

\* lines 387-405: the locality discount [ratio |-> <<num, den>>]; site is
\* compute_site[f], here the path of the node billing f
Discount(site, here, bounds_realized, d, f) ==
    IF site.path = here THEN [ratio |-> << 1, 1 >>]
    ELSE AndThen(get_bounds(site.node, f, d),
                 LAMBDA bounds_computed :
                     [ratio |-> FoldingDiscount(Extents(bounds_realized.region),
                                                Extents(bounds_computed.region))])

\* Bill without the mem_cost of line 421
BillPerEdgeOnly(node, points, subinstances, over, discount, instances, nedges) ==
    LET cost_per_cold_load == Log(discount[1] * points, discount[2])
        num_cold_loads == instances * points
        mem_cost == ((node.memory * cost_per_cold_load) \div CostScale) * num_cold_loads
    IN [compute_cost |-> node.compute * points * subinstances * over,
        mem_cost |-> mem_cost,
        discount |-> discount,
        total |-> mem_cost * nedges
                  + node.compute * points * subinstances * over]

\* lines 368-421: the compute and memory cost of one stored Func
Bill(node, points, subinstances, over, discount, instances, nedges) ==
    LET cost_per_cold_load == Log(discount[1] * points, discount[2])
        num_cold_loads == instances * points
        mem_cost == ((node.memory * cost_per_cold_load) \div CostScale) * num_cold_loads
    IN [compute_cost |-> node.compute * points * subinstances * over,
        mem_cost |-> mem_cost,
        discount |-> discount,
        total |-> mem_cost * nedges + mem_cost
                  + node.compute * points * subinstances * over]

\* overcompute[f]: operator[] makes a missing entry 0
OvercomputeOf(overcompute, f) == IF f \in DOMAIN overcompute THEN overcompute[f] ELSE 0

\* lines 361-422: what a node adds to its result for f in its store_at
StoreCost(n, here, d, f, compute_site, overcompute, instances) ==
    AndThen(get_bounds(n, f, d),
        LAMBDA bounds_realized :
            IF f \notin DOMAIN compute_site THEN BoundsError("it != compute_site.end()")
            ELSE AndThen(Discount(compute_site[f], here, bounds_realized, d, f),
                     LAMBDA discount :
                         Bill(node_map(d, f), Product(Extents(bounds_realized.region)),
                              Subinstances(n, instances), OvercomputeOf(overcompute, f),
                              discount.ratio, instances, Len(outgoing_edges(d, f)))))

\* the loop of line 361 over the Funcs fs: [total |-> the sum of what it adds]
RECURSIVE StoredCost(_, _, _, _, _, _, _)
StoredCost(n, here, d, fs, compute_site, overcompute, instances) ==
    IF fs = {} THEN [total |-> 0]
    ELSE AndThen(StoreCost(n, here, d, CHOOSE f \in fs : TRUE,
                           compute_site, overcompute, instances),
             LAMBDA c :
                 AndThen(StoredCost(n, here, d, fs \ {CHOOSE f \in fs : TRUE},
                                    compute_site, overcompute, instances),
                     LAMBDA rest : [total |-> c.total + rest.total]))

\* lines 425-432: the cost of the Funcs fs inlined in a loop
RECURSIVE InlinedCost(_, _, _, _)
InlinedCost(n, d, fs, subinstances) ==
    IF fs = {} THEN 0
    ELSE node_map(d, CHOOSE f \in fs : TRUE).compute_if_inlined * subinstances
             * n.inlined[CHOOSE f \in fs : TRUE] * CostScale
         + InlinedCost(n, d, fs \ {CHOOSE f \in fs : TRUE}, subinstances)

\* lines 332-334: compute_site[func] = parent, at the first loop of func
SiteOf(n, compute_site, parent) ==
    IF ~is_root(n) /\ n.func \notin DOMAIN compute_site
    THEN MapPut(compute_site, n.func, parent) ELSE compute_site

\* line 353: overcompute[func] = factor, in an innermost loop
OverOf(n, overcompute, instances) ==
    IF n.innermost THEN MapPut(overcompute, n.func, OvercomputeFactor(n, instances))
    ELSE overcompute

RECURSIVE cost_of(_, _, _, _, _, _, _)
RECURSIVE CostOfChildren(_, _, _, _, _, _)

\* the loop over the children (line 356): acc is [result, compute_site, overcompute]
CostOfChildren(n, here, d, k, acc, subinstances) ==
    IF k > Len(n.children) THEN acc
    ELSE AndThen(cost_of(n.children[k], Append(here, k), d, acc.compute_site,
                         acc.overcompute, subinstances, [path |-> here, node |-> n]),
             LAMBDA r :
                 CostOfChildren(n, here, d, k + 1,
                     [result |-> acc.result + r.result, compute_site |-> r.compute_site,
                      overcompute |-> r.overcompute], subinstances))

\* PartialScheduleNode::cost; here is the path of n from the root, which
\* stands for the pointer this; parent is [path, node]
cost_of(n, here, d, compute_site, overcompute, instances, parent) ==
    AndThen(CostOfChildren(n, here, d, 1,
                [result |-> 0,
                 compute_site |-> SiteOf(n, compute_site, parent),
                 overcompute |-> OverOf(n, overcompute, instances)],
                Subinstances(n, instances)),
        LAMBDA kids :
            AndThen(StoredCost(n, here, d, n.store_at, kids.compute_site,
                               kids.overcompute, instances),
                LAMBDA stored :
                    [result |-> kids.result + stored.total
                                + InlinedCost(n, d, DOMAIN n.inlined,
                                              Subinstances(n, instances)),
                     compute_site |-> kids.compute_site,
                     overcompute |-> kids.overcompute]))

\* the essential compute cost of the first n funcs (lines 881-887)
RECURSIVE EssentialCost(_, _, _)
EssentialCost(r, d, n) ==
    IF n = 0 THEN [total |-> 0]
    ELSE AndThen(EssentialCost(r, d, n - 1),
             LAMBDA rest :
                 AndThen(get_bounds(r, d.nodes[n].func, d),
                     LAMBDA b : [total |-> rest.total + b.min_cost * CostScale]))

\* the path that stands for the null parent of the root
NullParent == [path |-> << -1 >>, node |-> NewNode]

\* State::calculate_cost: [cost |-> the value it leaves in cost]
calculate_cost(r, n, d) ==
    AndThen(cost_of(r, <<>>, d, EmptyMap, EmptyMap, 1, NullParent),
        LAMBDA c :
            AndThen(EssentialCost(r, d, n),
                LAMBDA essential : [cost |-> c.result - essential.total]))

(***************************************************************************)
(* PartialScheduleNode::apply.  A Var is its name, a sequence of strings   *)
(* (old.name() + "o" is the name with "o" appended).  The value of apply   *)
(* is [issued, vars_map]: the scheduling directives issued, in order, and  *)
(* the vars_map it leaves.  num_cores is the fraction << num, den >>.      *)
(* Directives issued in a loop over a set or map keyed by Function         *)
(* (store_at, reorder) go to different Funcs; they are listed in one fixed *)
(* order.                                                                  *)
(***************************************************************************)
\* Func(func).args() as Vars
ArgVars(dims) == [i \in 1..dims |-> << << "x", "y", "z", "w" >>[i] >>]

\* LoopLevel::root() and LoopLevel(func, var)
LoopLevel(f, v) == [func |-> f, var |-> v]
RootLevel == LoopLevel(Undefined, <<>>)

\* lines 777-783: vars_map[func], filled with the args at first use
VarsOf(vars_map, f, dims) ==
    IF f \in DOMAIN vars_map /\ vars_map[f] # <<>> THEN vars_map[f] ELSE ArgVars(dims)

MoreThanOne(num_cores) == num_cores[1] > num_cores[2]

\* lines 788-794: vectorize by 16, 8 or 4
Vectorized(f, v, size0) ==
    IF size0 >= 16 THEN << [func |-> f, kind |-> "vectorize", var |-> v, factor |-> 16] >>
    ELSE IF size0 >= 8 THEN << [func |-> f, kind |-> "vectorize", var |-> v, factor |-> 8] >>
    ELSE IF size0 >= 4 THEN << [func |-> f, kind |-> "vectorize", var |-> v, factor |-> 4] >>
    ELSE <<>>

\* lines 795-801: unroll a small inner extent once the Func has been tiled
Unrolled(f, v, size0, loop_vars, dims) ==
    IF Len(loop_vars) > dims /\ size0 <= 32
    THEN << [func |-> f, kind |-> "unroll", var |-> v] >> ELSE <<>>

\* lines 802-809: task_size = size.back() / num_cores; 0 stands for no task size
ParallelLeaf(f, v, size_back, num_cores) ==
    IF ~MoreThanOne(num_cores) THEN <<>>
    ELSE IF size_back * num_cores[2] > num_cores[1]
    THEN << [func |-> f, kind |-> "parallel", var |-> v,
             task_size |-> CeilDiv(size_back * num_cores[2], num_cores[1])] >>
    ELSE << [func |-> f, kind |-> "parallel", var |-> v, task_size |-> 0] >>

\* lines 785-809: the directives of an innermost loop
LeafDirectives(n, loop_vars, dims, num_cores) ==
    Vectorized(n.func, loop_vars[1], n.size[1])
    \o Unrolled(n.func, loop_vars[1], n.size[1], loop_vars, dims)
    \o ParallelLeaf(n.func, loop_vars[dims], n.size[Len(n.size)], num_cores)

\* lines 814-822: the implied splits; the loop_vars with the outer Vars in place
SplitDirectives(f, loop_vars, region) ==
    [i \in 1..Len(region) |->
        [func |-> f, kind |-> "split", old |-> loop_vars[i], outer |-> Append(loop_vars[i], "o"),
         inner |-> Append(loop_vars[i], "i"), factor |-> region[i][2] - region[i][1] + 1]]

SplitVars(loop_vars, region) ==
    [i \in 1..Len(loop_vars) |-> IF i <= Len(region) THEN Append(loop_vars[i], "o") ELSE loop_vars[i]]

NewInner(loop_vars, region) == [i \in 1..Len(region) |-> Append(loop_vars[i], "i")]

\* lines 827-832: the dimensions parallelized, from dims - 1 down, and the
\* cores left: [dims |-> sequence of C++ indices, num_cores |-> fraction]
RECURSIVE ParallelDims(_, _, _)
ParallelDims(size, i, num_cores) ==
    IF ~(MoreThanOne(num_cores) /\ i >= 0) THEN [dims |-> <<>>, num_cores |-> num_cores]
    ELSE LET rest == ParallelDims(size, i - 1, << num_cores[1], num_cores[2] * size[i + 1] >>)
         IN [dims |-> << i >> \o rest.dims, num_cores |-> rest.num_cores]

\* lines 837-844: fuse the parallel dimensions into one, k fuses to go
RECURSIVE Fused(_, _, _, _)
Fused(f, loop_vars, ipd, k) ==
    IF k = 0 THEN [issued |-> <<>>, loop_vars |-> loop_vars]
    ELSE LET fused == loop_vars[ipd + 1] \o << "_" >> \o loop_vars[ipd + 2]
             rest == Fused(f, [i \in 1..(Len(loop_vars) - 1) |->
                                 IF i < ipd + 1 THEN loop_vars[i]
                                 ELSE IF i = ipd + 1 THEN fused ELSE loop_vars[i + 1]],
                           ipd, k - 1)
         IN [issued |-> << [func |-> f, kind |-> "fuse", inner |-> loop_vars[ipd + 1],
                            outer |-> loop_vars[ipd + 2], fused |-> fused] >> \o rest.issued,
             loop_vars |-> rest.loop_vars]

\* lines 824-845: parallelize the outer loop_vars and fuse them
ParallelOuter(f, loop_vars, par) ==
    IF par.dims = <<>> THEN [issued |-> <<>>, loop_vars |-> loop_vars, num_cores |-> par.num_cores]
    ELSE LET fs == Fused(f, loop_vars, par.dims[Len(par.dims)], Len(par.dims) - 1)
         IN [issued |-> [k \in 1..Len(par.dims) |->
                            [func |-> f, kind |-> "parallel", var |-> loop_vars[par.dims[k] + 1],
                             task_size |-> 0]] \o fs.issued,
             loop_vars |-> fs.loop_vars, num_cores |-> par.num_cores]

\* lines 849-851: store_at for the Funcs fs
RECURSIVE StoreAtDirectives(_, _)
StoreAtDirectives(fs, here) ==
    IF fs = {} THEN <<>>
    ELSE << [func |-> CHOOSE f \in fs : TRUE, kind |-> "store_at", at |-> here] >>
         \o StoreAtDirectives(fs \ {CHOOSE f \in fs : TRUE}, here)

RECURSIVE apply(_, _, _, _, _)
RECURSIVE ApplyChildren(_, _, _, _, _, _)

\* lines 852-857 (and 772-775 at the root): the children from the k-th on
ApplyChildren(n, k, here, d, vars_map, num_cores) ==
    IF k > Len(n.children) THEN [issued |-> <<>>, vars_map |-> vars_map]
    ELSE LET first == apply(n.children[k], here, d, vars_map, num_cores)
             rest == ApplyChildren(n, k + 1, here, d, first.vars_map, num_cores)
         IN [issued |-> (IF is_root(n)
                         THEN << [func |-> n.children[k].func, kind |-> "compute_root"] >>
                         ELSE IF n.children[k].func # n.func
                         THEN << [func |-> n.children[k].func, kind |-> "compute_at",
                                  at |-> here] >>
                         ELSE <<>>)
                        \o first.issued \o rest.issued,
             vars_map |-> rest.vars_map]

\* the loop node n with its loop_vars and directives settled: store_at, then the children
ApplyBody(n, here, d, vars_map, num_cores, issued) ==
    LET kids == ApplyChildren(n, 1, here, d, vars_map, num_cores)
    IN [issued |-> issued \o StoreAtDirectives(n.store_at, here) \o kids.issued,
        vars_map |-> kids.vars_map]

\* lines 810-848: a loop over tiles
ApplyTiled(n, d, vars_map, loop_vars, region, par) ==
    ApplyBody(n, LoopLevel(n.func, par.loop_vars[1]), d,
              MapPut(vars_map, n.func, NewInner(loop_vars, region) \o par.loop_vars),
              par.num_cores,
              SplitDirectives(n.func, loop_vars, region) \o par.issued)

apply(n, here, d, vars_map, num_cores) ==
    IF is_root(n) THEN ApplyChildren(n, 1, RootLevel, d, vars_map, num_cores)
    ELSE IF n.innermost
    THEN ApplyBody(n, LoopLevel(n.func, VarsOf(vars_map, n.func, Len(n.size))[1]), d,
                   MapPut(vars_map, n.func, VarsOf(vars_map, n.func, Len(n.size))),
                   num_cores,
                   LeafDirectives(n, VarsOf(vars_map, n.func, Len(n.size)),
                                  node_map(d, n.func).dimensions, num_cores))
    ELSE ApplyTiled(n, d, vars_map, VarsOf(vars_map, n.func, Len(n.size)),
                    get_bounds(n, n.func, d).region,
                    ParallelOuter(n.func,
                        SplitVars(VarsOf(vars_map, n.func, Len(n.size)),
                                  get_bounds(n, n.func, d).region),
                        ParallelDims(n.size, node_map(d, n.func).dimensions - 1, num_cores)))

\* lines 938-940: the reorder of every Func of vars_map
Reorders(d, vars_map) ==
    LET HasVars(nd) == nd.func \in DOMAIN vars_map
        scheduled == Filter(d.nodes, HasVars)
    IN [k \in 1..Len(scheduled) |->
           [func |-> scheduled[k].func, kind |-> "reorder",
            loop_vars |-> vars_map[scheduled[k].func]]]

ReorderedAfter(d, applied) == applied.issued \o Reorders(d, applied.vars_map)

\* State::apply_schedule: the directives it issues
apply_schedule(st, d, params) ==
    ReorderedAfter(d, apply(st.root, RootLevel, d, EmptyMap, << params.parallelism, 1 >>))

(***************************************************************************)
(* State and State::generate_children.                                     *)
(***************************************************************************)
\* a child State whose num_funcs_scheduled was not advanced
MakeStateStale(r, n, d) ==
    AndThen(r, LAMBDA tree :
        AndThen(calculate_cost(tree, n, d),
            LAMBDA c : [root |-> tree, cost |-> c.cost, num_funcs_scheduled |-> n - 1]))

\* the child State with tree r and its cost calculated; an error if r is
\* one or calculate_cost trips over an assertion
MakeState(r, n, d) ==
    AndThen(r, LAMBDA tree :
        AndThen(calculate_cost(tree, n, d),
            LAMBDA c : [root |-> tree, cost |-> c.cost, num_funcs_scheduled |-> n]))

\* a default-constructed State
EmptyState == [root |-> NewNode, cost |-> 0, num_funcs_scheduled |-> 0]

\* generate_children that walks the nodes from the wrong end
NextFuncFromEnd(st, d) == d.nodes[Len(d.nodes) - st.num_funcs_scheduled].func

\* the Func generate_children schedules next (line 900)
NextFunc(st, d) == d.nodes[st.num_funcs_scheduled + 1].func

\* lines 901-905: every consumer of the next Func is computed by the tree
ConsumersComputed(st, d) ==
    \A k \in 1..Len(outgoing_edges(d, NextFunc(st, d))) :
        computes(st.root, outgoing_edges(d, NextFunc(st, d))[k].consumer)

\* lines 913 and 924: the assertion on a child, as an error
ChildChecked(f, child, msg) ==
    IF IsError(child) \/ computes(child.root, f) THEN child ELSE BoundsError(msg)

\* generate_children without the option of inlining
NoInlineChildren(st, d) == <<>>

\* 1) Inline it (lines 908-915): the children handed to accept_child
InlineChildren(st, d) ==
    IF outgoing_edges(d, NextFunc(st, d)) = <<>> THEN <<>>
    ELSE << ChildChecked(NextFunc(st, d),
                MakeState(inline_func(st.root, NextFunc(st, d), d),
                          st.num_funcs_scheduled + 1, d),
                "Failed to inline") >>

\* lines 919-926: a child State of each tile option
Realized(st, d, tile_options) ==
    IF IsError(FirstError(tile_options, EmptyMap))
    THEN << FirstError(tile_options, EmptyMap) >>
    ELSE [k \in 1..Len(tile_options) |->
            ChildChecked(NextFunc(st, d),
                MakeState(tile_options[k], st.num_funcs_scheduled + 1, d),
                "Failed to inject realization")]

\* 2) Realize it somewhere (lines 918-926).  The parent handed to
\* compute_in_tiles is null; the root is not tileable, so it is never used.
RealizeChildren(st, d) ==
    Realized(st, d, compute_in_tiles(st.root, NextFunc(st, d), d, NewNode, FALSE))

\* the children generate_children hands to accept_child, in order; an
\* element that is an error is the assertion that ends the program there
generate_children(st, d) ==
    IF st.num_funcs_scheduled = Len(d.nodes) THEN <<>>
    ELSE IF ~ConsumersComputed(st, d)
    THEN << BoundsError("Partially scheduled code doesn't compute") >>
    ELSE InlineChildren(st, d) \o RealizeChildren(st, d)

(***************************************************************************)
(* The catalogue of pipelines: the Funcs of each, its outputs, the         *)
(* realization order and the machine parameters.                           *)
(* memory = bytes_per_element * balance / log(last_level_cache_size): with *)
(* one byte per element and a 16 MiB cache, 6.011 for balance 100 and      *)
(* 0.060 for balance 1.                                                    *)
(***************************************************************************)
Est(var, min, extent) == [var |-> var, min |-> min, extent |-> extent]

Memory100 == (1 * 100 * CostScale * 1000) \div 16636
Memory1   == (1 * 1 * CostScale * 1000) \div 16636

Program(env, outputs, order, params) ==
    [env |-> env, outputs |-> outputs, order |-> order, params |-> params]

\* MachineParams params(8, 16 * 1024 * 1024, 100)
TestParams == MachineParams(8, LogCacheSize, 100)

\* the same machine with cheap memory
CheapMemoryParams == MachineParams(8, LogCacheSize, 1)

\* h(x) = g(x) * 2 + 1; g(x) = f(x) * 2 + 1; f(x) = x * x, h over [0, 32)
PointwiseChain ==
    Program(<< Func("h", 1, 4, 1, << Load("g", << Aff(1, 1, 0, 0) >>, 1) >>,
                    << Est(1, 0, 32) >>, FALSE),
               Func("g", 1, 4, 1, << Load("f", << Aff(1, 1, 0, 0) >>, 1) >>, <<>>, FALSE),
               Func("f", 1, 2, 1, <<>>, <<>>, FALSE) >>,
            << "h" >>, << "f", "g", "h" >>, TestParams)

\* h(x, y) = f(x, 2y) * f(x, 2y), h over [0, 16) x [0, 16), cheap memory
StridedSquare ==
    Program(<< Func("h", 2, 10, 1,
                    << Load("f", << Aff(1, 1, 0, 0), Aff(2, 2, 0, 0) >>, 2) >>,
                    << Est(1, 0, 16), Est(2, 0, 16) >>, FALSE),
               Func("f", 2, 6, 1, <<>>, <<>>, FALSE) >>,
            << "h" >>, << "f", "h" >>, CheapMemoryParams)

\* h(x) = g(x - 1) + g(x + 1) + f(x + 2); g(x) = f(x) + 1; h over [0, 32)
Diamond ==
    Program(<< Func("h", 1, 9, 1,
                    << Load("f", << Aff(1, 1, 2, 2) >>, 1),
                       Load("g", << Aff(1, 1, -1, 1) >>, 2) >>,
                    << Est(1, 0, 32) >>, FALSE),
               Func("g", 1, 3, 1, << Load("f", << Aff(1, 1, 0, 0) >>, 1) >>, <<>>, FALSE),
               Func("f", 1, 2, 1, <<>>, <<>>, FALSE) >>,
            << "h" >>, << "f", "g", "h" >>, TestParams)

\* two outputs h(x) = g(x) + 1 over [0, 32) and k(x) = g(x + 8) over [0, 16)
TwoOutputs ==
    Program(<< Func("h", 1, 3, 1, << Load("g", << Aff(1, 1, 0, 0) >>, 1) >>,
                    << Est(1, 0, 32) >>, FALSE),
               Func("k", 1, 3, 1, << Load("g", << Aff(1, 1, 8, 8) >>, 1) >>,
                    << Est(1, 0, 16) >>, FALSE),
               Func("g", 1, 2, 1, <<>>, <<>>, FALSE) >>,
            << "h", "k" >>, << "g", "k", "h" >>, TestParams)

\* h(x) = f(x - 1) + f(x) + f(x + 1), h over [0, 64)
Stencil ==
    Program(<< Func("h", 1, 8, 1, << Load("f", << Aff(1, 1, -1, 1) >>, 3) >>,
                    << Est(1, 0, 64) >>, FALSE),
               Func("f", 1, 2, 1, <<>>, <<>>, FALSE) >>,
            << "h" >>, << "f", "h" >>, TestParams)

\* h(x) = g(x - 1) + g(x + 1); g(x) = f(x) * 2; f(x) = x * x, h over [0, 64)
StencilChain ==
    Program(<< Func("h", 1, 6, 1, << Load("g", << Aff(1, 1, -1, 1) >>, 2) >>,
                    << Est(1, 0, 64) >>, FALSE),
               Func("g", 1, 3, 1, << Load("f", << Aff(1, 1, 0, 0) >>, 1) >>, <<>>, FALSE),
               Func("f", 1, 2, 1, <<>>, <<>>, FALSE) >>,
            << "h" >>, << "f", "g", "h" >>, TestParams)

\* h(x, y) = f(x, y) + f(x, y + 1), h over [0, 32) x [0, 4)
Stencil2D ==
    Program(<< Func("h", 2, 9, 1,
                    << Load("f", << Aff(1, 1, 0, 0), Aff(2, 1, 0, 1) >>, 2) >>,
                    << Est(1, 0, 32), Est(2, 0, 4) >>, FALSE),
               Func("f", 2, 3, 1, <<>>, <<>>, FALSE) >>,
            << "h" >>, << "f", "h" >>, TestParams)

\* h(x) = in(x) + g(x); g(x) = in(x + 1) * 2 with in an input image,
\* h over [0, 32)
ImageInput ==
    Program(<< Func("h", 1, 4, 1,
                    << Load("g", << Aff(1, 1, 0, 0) >>, 1),
                       Load("in", << Aff(1, 1, 0, 0) >>, 1) >>,
                    << Est(1, 0, 32) >>, FALSE),
               Func("g", 1, 4, 1, << Load("in", << Aff(1, 1, 1, 1) >>, 1) >>, <<>>, FALSE) >>,
            << "h" >>, << "g", "h" >>, TestParams)

\* h(x, y) = f(x, y) + 1 with an estimate for x only
MissingEstimate ==
    Program(<< Func("h", 2, 5, 1,
                    << Load("f", << Aff(1, 1, 0, 0), Aff(2, 1, 0, 0) >>, 1) >>,
                    << Est(1, 0, 32) >>, FALSE),
               Func("f", 2, 2, 1, <<>>, <<>>, FALSE) >>,
            << "h" >>, << "f", "h" >>, TestParams)

\* h(x) = f(x) + 1; f(x) = x; f(0) = 7 (an update definition), h over [0, 32)
WithUpdate ==
    Program(<< Func("h", 1, 3, 1, << Load("f", << Aff(1, 1, 0, 0) >>, 1) >>,
                    << Est(1, 0, 32) >>, FALSE),
               Func("f", 1, 1, 1, <<>>, <<>>, TRUE) >>,
            << "h" >>, << "f", "h" >>, TestParams)

\* two outputs k(x) = h(x) + h(x + 1) over [0, 32) and h(x) = x * x
\* without an estimate
OutputFeedsOutput ==
    Program(<< Func("k", 1, 5, 1, << Load("h", << Aff(1, 1, 0, 1) >>, 2) >>,
                    << Est(1, 0, 32) >>, FALSE),
               Func("h", 1, 2, 1, <<>>, <<>>, FALSE) >>,
            << "k", "h" >>, << "h", "k" >>, TestParams)

\* lines 1120-1127 with smaller estimates and one byte per element:
\* f(x, y) = (x + y) * (x + y); g(x, y) = f(x, y) * 2 + 1;
\* h(x, y) = g(x, y) * 2 + 1, h over [0, 32) x [0, 2)
PointwiseChain2D ==
    Program(<< Func("h", 2, 6, 1,
                    << Load("g", << Aff(1, 1, 0, 0), Aff(2, 1, 0, 0) >>, 1) >>,
                    << Est(1, 0, 32), Est(2, 0, 2) >>, FALSE),
               Func("g", 2, 6, 1,
                    << Load("f", << Aff(1, 1, 0, 0), Aff(2, 1, 0, 0) >>, 1) >>, <<>>, FALSE),
               Func("f", 2, 4, 1, <<>>, <<>>, FALSE) >>,
            << "h" >>, << "f", "g", "h" >>, TestParams)

Pipelines == << PointwiseChain, StridedSquare, Diamond, TwoOutputs, Stencil,
               StencilChain, ImageInput, MissingEstimate, WithUpdate,
               OutputFeedsOutput, PointwiseChain2D, Stencil2D >>

PipelineSet == {Pipelines[i] : i \in 1..Min(NumPipelines, Len(Pipelines))}

\* the DAG optimal_schedule is handed; there is none if the constructor failed
EmptyDAG == [nodes |-> <<>>, edges |-> <<>>]

DagOf(built) == IF IsError(built) THEN EmptyDAG ELSE built

\* the message of the assertion the constructor failed with
ConstructionFailure(built) == IF IsError(built) THEN built.error ELSE "none"

(***************************************************************************)
(* Spec: every State generate_children hands to accept_child, starting     *)
(* from the empty State.  (root, cost, num_funcs_scheduled) is the current *)
(* State; failure is the message of the assertion that ended the program,  *)
(* last the kind of the last step.                                         *)
(***************************************************************************)
Current == [root |-> root, cost |-> cost, num_funcs_scheduled |-> num_funcs_scheduled]

SearchIdle ==
    /\ beam_size = 0 /\ q = <<>> /\ pending = <<>>
    /\ pc = "explore" /\ pass = 0 /\ returned = <<>>
    /\ directives = <<>>

Init ==
    /\ program \in PipelineSet
    /\ dag = DagOf(FunctionDAG(program))
    /\ root = EmptyState.root
    /\ cost = EmptyState.cost
    /\ num_funcs_scheduled = EmptyState.num_funcs_scheduled
    /\ failure = ConstructionFailure(FunctionDAG(program))
    /\ last = "init"
    /\ SearchIdle

\* accept_child receives child, or the assertion child stands for fires
Accept(child, how) ==
    IF IsError(child)
    THEN /\ failure' = child.error
         /\ last' = "abort"
         /\ UNCHANGED <<root, cost, num_funcs_scheduled>>
    ELSE /\ root' = child.root
         /\ cost' = child.cost
         /\ num_funcs_scheduled' = child.num_funcs_scheduled
         /\ last' = how
         /\ UNCHANGED failure

CanStep ==
    /\ pc = "explore"
    /\ failure = "none"
    /\ num_funcs_scheduled < Len(dag.nodes)

\* the number of children made by inlining: 1, or 0 for an output
NumInlined(st, d) ==
    IF ConsumersComputed(st, d) /\ outgoing_edges(d, NextFunc(st, d)) # <<>> THEN 1 ELSE 0

\* child k of cs is handed to accept_child: no assertion fired before it
AcceptOneOf(cs, from, to, how) ==
    \E k \in from..to :
        /\ \A j \in 1..(k - 1) : ~IsError(cs[j])
        /\ Accept(cs[k], how)

\* generate_children, part 1: the child with the next Func inlined
Inline ==
    /\ CanStep
    /\ AcceptOneOf(generate_children(Current, dag), 1, NumInlined(Current, dag), "inline")
    /\ UNCHANGED <<program, dag, beam_size, q, pending, pc, pass, returned, directives>>

\* generate_children, part 2: a child with the next Func realized
RealizeOneOf(cs, from) == AcceptOneOf(cs, from, Len(cs), "realize")

Realize ==
    /\ CanStep
    /\ RealizeOneOf(generate_children(Current, dag), NumInlined(Current, dag) + 1)
    /\ UNCHANGED <<program, dag, beam_size, q, pending, pc, pass, returned, directives>>

Next == Inline \/ Realize

Spec == Init /\ [][Next]_vars

(***************************************************************************)
(* BeamSpec: optimal_schedule.  q and pending are the priority queues, as  *)
(* sequences in insertion order; top() is the first element that           *)
(* CompareStates puts below no other (among states of equal cost the heap  *)
(* of the library picks one in a fixed way; here it is the oldest).        *)
(***************************************************************************)
\* CompareStates with the comparison the wrong way round
CompareStatesLess(a, b) == a.cost < b.cost

\* CompareStates()(a, b): a comes after b
CompareStates(a, b) == a.cost > b.cost

\* the index of q.top()
TopIndex(s) ==
    CHOOSE i \in 1..Len(s) :
        /\ \A j \in 1..Len(s) : ~CompareStates(s[i], s[j])
        /\ \A j \in 1..(i - 1) : \E m \in 1..Len(s) : CompareStates(s[j], s[m])

Remove(s, i) == [k \in 1..(Len(s) - 1) |-> IF k < i THEN s[k] ELSE s[k + 1]]

\* lines 1025-1028: n times trimmed.push(q.top()); q.pop()
RECURSIVE PopInto(_, _, _)
PopInto(s, trimmed, n) ==
    IF n = 0 THEN trimmed
    ELSE PopInto(Remove(s, TopIndex(s)), Append(trimmed, s[TopIndex(s)]), n - 1)

\* lines 1023-1030
Trimmed(s, beam) == IF Len(s) > beam THEN PopInto(s, <<>>, beam) ELSE s

\* the children before the first assertion that fires
RECURSIVE UntilError(_)
UntilError(s) ==
    IF s = <<>> \/ IsError(Head(s)) THEN <<>> ELSE << Head(s) >> \o UntilError(Tail(s))

BeamInit ==
    /\ program \in PipelineSet
    /\ dag = DagOf(FunctionDAG(program))
    /\ beam_size \in 1..MaxBeam
    /\ q = << EmptyState >>
    /\ pending = <<>>
    /\ pc = IF IsError(FunctionDAG(program)) THEN "rejected" ELSE "trim"
    /\ pass = 0
    /\ returned = <<>>
    /\ root = EmptyState.root
    /\ cost = EmptyState.cost
    /\ num_funcs_scheduled = EmptyState.num_funcs_scheduled
    /\ failure = ConstructionFailure(FunctionDAG(program))
    /\ last = "init"
    /\ directives = <<>>

\* the start of a pass: trim q to the beam and swap it into pending
TrimFrontier ==
    /\ pc = "trim"
    /\ pending' = Trimmed(q, beam_size)
    /\ q' = <<>>
    /\ pc' = "drain"
    /\ last' = IF Len(q) > beam_size THEN "trimmed" ELSE "kept"
    /\ UNCHANGED <<program, dag, beam_size, pass, returned, root, cost,
                   num_funcs_scheduled, failure, directives>>

\* pending is empty: the next pass
NextPass ==
    /\ pc = "drain"
    /\ pending = <<>>
    /\ pc' = "trim"
    /\ pass' = IF pass < MaxPasses THEN pass + 1 ELSE pass
    /\ last' = "pass"
    /\ UNCHANGED <<program, dag, beam_size, q, pending, returned, root, cost,
                   num_funcs_scheduled, failure, directives>>

\* the state popped from pending becomes the current State
Pop ==
    /\ pc = "drain"
    /\ pending # <<>>
    /\ root' = pending[TopIndex(pending)].root
    /\ cost' = pending[TopIndex(pending)].cost
    /\ num_funcs_scheduled' = pending[TopIndex(pending)].num_funcs_scheduled
    /\ pending' = Remove(pending, TopIndex(pending))

\* the popped state has every Func scheduled: return it
Return ==
    /\ Pop
    /\ pending[TopIndex(pending)].num_funcs_scheduled = Len(dag.nodes)
    /\ returned' = << pending[TopIndex(pending)] >>
    /\ pc' = "done"
    /\ last' = "return"
    /\ UNCHANGED <<program, dag, beam_size, q, pass, failure, directives>>

\* lines 1014-1019 and 1050: the children cs are pushed on q until an
\* assertion fires
Enqueue(cs, err) ==
    /\ q' = q \o UntilError(cs)
    /\ failure' = IF IsError(err) THEN err.error ELSE failure
    /\ pc' = IF IsError(err) THEN "aborted" ELSE pc
    /\ last' = IF IsError(err) THEN "abort" ELSE "expand"

EnqueueAll(cs) == Enqueue(cs, FirstError(cs, EmptyMap))

\* the popped state is expanded: its children are pushed on q
Expand ==
    /\ Pop
    /\ pending[TopIndex(pending)].num_funcs_scheduled # Len(dag.nodes)
    /\ EnqueueAll(generate_children(pending[TopIndex(pending)], dag))
    /\ UNCHANGED <<program, dag, beam_size, pass, returned, directives>>

\* generate_schedules_top_down, lines 1097-1104: the schedule returned is
\* applied to the Funcs
Apply ==
    /\ pc = "done"
    /\ directives' = apply_schedule(returned[1], dag, program.params)
    /\ pc' = "applied"
    /\ last' = "apply"
    /\ UNCHANGED <<program, dag, root, cost, num_funcs_scheduled, failure,
                   beam_size, q, pending, pass, returned>>

BeamNext == TrimFrontier \/ NextPass \/ Return \/ Expand \/ Apply

BeamSpec == BeamInit /\ [][BeamNext]_vars

(***************************************************************************)
(* optimal_schedule as a function of the DAG and the beam size: the value  *)
(* [returned |-> state] it returns, or the assertion that ends it.         *)
(***************************************************************************)
RECURSIVE Drain(_, _, _)
RECURSIVE Passes(_, _, _)

\* lines 1014-1019: the children cs are pushed on q, then the loop goes on
PushChildren(rest, queue, d, cs) ==
    IF IsError(FirstError(cs, EmptyMap)) THEN FirstError(cs, EmptyMap)
    ELSE Drain(rest, queue \o cs, d)

\* lines 1045-1050: the popped state is returned or expanded
DrainStep(state, rest, queue, d) ==
    IF state.num_funcs_scheduled = Len(d.nodes) THEN [returned |-> state]
    ELSE PushChildren(rest, queue, d, generate_children(state, d))

\* lines 1034-1051: while (!pending.empty())
Drain(pend, queue, d) ==
    IF pend = <<>> THEN [q |-> queue]
    ELSE DrainStep(pend[TopIndex(pend)], Remove(pend, TopIndex(pend)), queue, d)

\* the end of a pass: returned, aborted, or the next pass
AfterDrain(r, d, beam) ==
    IF IsError(r) \/ "returned" \in DOMAIN r THEN r ELSE Passes(r.q, d, beam)

\* lines 1021-1052: one pass of for (int i = 0; ; i++) from the frontier queue
Passes(queue, d, beam) == AfterDrain(Drain(Trimmed(queue, beam), <<>>, d), d, beam)

optimal_schedule(d, beam) == Passes(<< EmptyState >>, d, beam)

\* did the run r of optimal_schedule return a state?
Returns(r) == ~IsError(r)

(***************************************************************************)
(* The nodes of a schedule tree, by their path from the root.              *)
(***************************************************************************)
RECURSIVE Paths(_)
Paths(n) ==
    {<<>>} \cup UNION {{<< i >> \o p : p \in Paths(n.children[i])} :
                          i \in 1..Len(n.children)}

RECURSIVE NodeAt(_, _)
NodeAt(n, p) == IF p = <<>> THEN n ELSE NodeAt(n.children[Head(p)], Tail(p))

ParentPath(p) == SubSeq(p, 1, Len(p) - 1)

IsProperPrefix(p, r) == Len(p) < Len(r) /\ SubSeq(r, 1, Len(p)) = p

\* the Funcs that have a loop node in the tree n
Realized_funcs(n) == {NodeAt(n, p).func : p \in Paths(n) \ {<<>>}}

\* the paths of the nodes that store f
StoredAt(n, f) == {p \in Paths(n) : f \in NodeAt(n, p).store_at}

\* how often x occurs in the sequence s
Count(s, x) == Cardinality({i \in 1..Len(s) : s[i] = x})

(***************************************************************************)
(* C1.  In every state reachable by generate_children, root.computes(f)    *)
(* holds for exactly the first num_funcs_scheduled DAG nodes, and neither  *)
(* "Failed to inline" nor "Failed to inject realization" fires.            *)
(***************************************************************************)
C1_Coverage ==
    /\ \A i \in 1..Len(dag.nodes) :
           computes(root, dag.nodes[i].func) <=> i <= num_funcs_scheduled
    /\ failure \notin {"Failed to inline", "Failed to inject realization"}

\* a complete schedule with one Func inlined and another computed in a loop of its own
C1_Witness ==
    /\ num_funcs_scheduled = Len(dag.nodes)
    /\ Len(dag.nodes) = 3
    /\ \E p \in Paths(root) : DOMAIN NodeAt(root, p).inlined # {}
    /\ Cardinality(Realized_funcs(root)) = 2

(***************************************************************************)
(* C2.  Each step of generate_children schedules dag.nodes[num_funcs_      *)
(* scheduled] and adds one to num_funcs_scheduled; every consumer of the   *)
(* Func about to be scheduled is computed by the current tree, and         *)
(* "Partially scheduled code doesn't compute" never fires.                 *)
(***************************************************************************)
C2_IndexOrder ==
    [][/\ ConsumersComputed(Current, dag)
       /\ failure' # "Partially scheduled code doesn't compute"
       /\ num_funcs_scheduled' # num_funcs_scheduled =>
              /\ num_funcs_scheduled' = num_funcs_scheduled + 1
              /\ ~computes(root, NextFunc(Current, dag))
              /\ computes(root', dag.nodes[num_funcs_scheduled + 1].func)]_vars

\* a Func with two consumers has been scheduled after both of them
C2_Witness ==
    /\ num_funcs_scheduled = 3
    /\ Len(outgoing_edges(dag, dag.nodes[3].func)) = 2
    /\ last = "realize"

C4_TrimKeepsCheapest ==
    [][(pc = "trim" /\ pc' = "drain") =>
          IF Len(q) > beam_size
          THEN /\ Len(pending') = beam_size
               /\ \A i \in 1..Len(pending') :
                      Count(pending', pending'[i]) <= Count(q, pending'[i])
               /\ \A i \in 1..Len(pending'), j \in 1..Len(q) :
                      Count(q, q[j]) > Count(pending', q[j])
                          => pending'[i].cost <= q[j].cost
          ELSE /\ Len(pending') = Len(q)
               /\ \A j \in 1..Len(q) : Count(pending', q[j]) = Count(q, q[j])]_vars

\* a frontier that was larger than the beam has been trimmed, after the first pass
C4_Witness ==
    /\ pc = "drain"
    /\ last = "trimmed"
    /\ Len(pending) = beam_size
    /\ pass >= 2

(***************************************************************************)
(* C5.  Each Func with a loop node in the tree is in the store_at of       *)
(* exactly one node, a proper ancestor of every loop node of that Func.    *)
(***************************************************************************)
C5_StoredOnce ==
    \A f \in Realized_funcs(root) :
        /\ Cardinality(StoredAt(root, f)) = 1
        /\ \A p \in StoredAt(root, f) : \A r \in Paths(root) :
               NodeAt(root, r).func = f => IsProperPrefix(p, r)

(***************************************************************************)
(* C6.  Every node with innermost = TRUE has no children.                  *)
(***************************************************************************)
C6_InnermostIsLeaf ==
    \A p \in Paths(root) : NodeAt(root, p).innermost => NodeAt(root, p).children = <<>>

(***************************************************************************)
(* C7.  Tiling a node n by t gives an outer node of size t, innermost      *)
(* FALSE, with a single inner child that has n's children, inlined map,    *)
(* store_at, bounds, func and innermost flag and size ceil(n.size / t), so *)
(* that outer.size[i] * inner.size[i] >= n.size[i].                        *)
(***************************************************************************)
TilingHolds(n, t, outer) ==
    \/ IsError(outer)
    \/ /\ Len(outer.children) = 1
       /\ outer.children[1].children = n.children
       /\ outer.children[1].inlined = n.inlined
       /\ outer.children[1].store_at = n.store_at
       /\ outer.children[1].bounds = n.bounds
       /\ outer.children[1].func = n.func
       /\ outer.children[1].innermost = n.innermost
       /\ outer.func = n.func
       /\ outer.size = t
       /\ outer.innermost = FALSE
       /\ Len(outer.children[1].size) = Len(n.size)
       /\ \A i \in 1..Len(n.size) :
              /\ outer.size[i] * outer.children[1].size[i] >= n.size[i]
              /\ outer.size[i] * (outer.children[1].size[i] - 1) < n.size[i]

AllTilingsHold(n, parent, tilings) ==
    \A k \in 1..Len(tilings) : TilingHolds(n, tilings[k], TileNode(n, tilings[k], parent, dag))

C7_TileStructure ==
    \A p \in Paths(root) \ {<<>>} : \A allow_splits \in BOOLEAN :
        NodeAt(root, p).tileable =>
            AllTilingsHold(NodeAt(root, p), NodeAt(root, ParentPath(p)),
                generate_tilings(NodeAt(root, p).size, Len(NodeAt(root, p).size) - 1,
                                 allow_splits))

\* the tree holds a loop that was tiled by a factor that does not divide its extent
C7_Witness ==
    \E p \in Paths(root) \ {<<>>} :
        /\ ~NodeAt(root, p).innermost
        /\ NodeAt(root, p).children # <<>>
        /\ NodeAt(root, p).children[1].func = NodeAt(root, p).func
        /\ \E i \in 1..Len(NodeAt(root, p).size) :
               /\ NodeAt(root, p).size[i] > 1
               /\ NodeAt(root, p).children[1].size[i] > 1
               /\ NodeAt(root, ParentPath(p)).children # <<>>
               /\ Extents(get_bounds(NodeAt(root, ParentPath(p)),
                                     NodeAt(root, p).func, dag).region)[i]
                      % NodeAt(root, p).size[i] # 0

(***************************************************************************)
(* C8.  Every non-innermost child of the root has a product of sizes of at *)
(* least 16: a tiling of a loop at the root has product >= 16.             *)
(***************************************************************************)
C8_RootParallelism ==
    \A i \in 1..Len(root.children) :
        ~root.children[i].innermost => Product(root.children[i].size) >= 16

\* a loop at the root has been tiled
C8_Witness ==
    \E i \in 1..Len(root.children) :
        /\ ~root.children[i].innermost
        /\ Len(root.children[i].children) >= 1

(***************************************************************************)
(* C9.  At every node the region get_bounds returns for a scheduled Func f *)
(* contains, in every dimension, the interval each consumer of f requires  *)
(* there.                                                                  *)
(***************************************************************************)
Within(inner, outer) == outer[1] <= inner[1] /\ inner[2] <= outer[2]

SatisfiesConsumer(e, b, c_bounds) ==
    IsError(b) \/ IsError(c_bounds)
    \/ \A i \in 1..Len(b.region) :
           Within(EdgeInterval(e.bounds[i], c_bounds.region), b.region[i])

C9_BoundsCoverConsumers ==
    \A p \in Paths(root) : \A k \in 1..Len(dag.edges) :
        (/\ computes(root, dag.edges[k].producer)
         /\ dag.edges[k].producer \notin DOMAIN NodeAt(root, p).bounds)
        => SatisfiesConsumer(dag.edges[k],
               get_bounds(NodeAt(root, p), dag.edges[k].producer, dag),
               get_bounds(NodeAt(root, p), dag.edges[k].consumer, dag))

(***************************************************************************)
(* C10.  The cost of a state with at least one Func scheduled is >= 0.     *)
(***************************************************************************)
C10_CostNonNegative == num_funcs_scheduled >= 1 => cost >= 0

(***************************************************************************)
(* C11.  The cost of the state optimal_schedule returns does not grow with *)
(* the beam size: when a run with beam b1 <= beam_size returns a state,    *)
(* the run with beam_size returns one too, of cost <= that of b1's.        *)
(***************************************************************************)
NoWorseThan(r1) ==
    Returns(r1) => /\ pc = "done"
                   /\ returned[1].cost <= r1.returned.cost

NodeIndices(d, f) == {i \in 1..Len(d.nodes) : d.nodes[i].func = f}

EdgeInOrder(d, e) ==
    /\ Cardinality(NodeIndices(d, e.producer)) = 1
    /\ Cardinality(NodeIndices(d, e.consumer)) = 1
    /\ \A i \in NodeIndices(d, e.consumer) : \A j \in NodeIndices(d, e.producer) : i < j
    /\ Count(outgoing_edges(d, e.producer), e) = 1
    /\ Count(incoming_edges(d, e.consumer), e) = 1

\* the loads of the pipeline's Funcs: << consumer, name loaded from >>
PipelineLoads(env) ==
    UNION {{<< env[k].name, env[k].loads[j].name >> : j \in 1..Len(env[k].loads)} :
              k \in 1..Len(env)}

C12_DagOrder ==
    (IsRealizationOrder(program.env, program.order) /\ dag # EmptyDAG) =>
        /\ Len(dag.nodes) = Len(program.order)
        /\ \A i \in 1..Len(dag.nodes) :
               /\ dag.nodes[i].func = program.order[Len(program.order) + 1 - i]
               /\ node_map(dag, dag.nodes[i].func) = dag.nodes[i]
        /\ \A k \in 1..Len(dag.edges) : EdgeInOrder(dag, dag.edges[k])
        /\ {<< dag.edges[k].consumer, dag.edges[k].producer >> : k \in 1..Len(dag.edges)}
               = {l \in PipelineLoads(program.env) : InEnv(program.env, l[2])}

\* a DAG with an edge, built from a pipeline that also loads from an input image
C12_Witness ==
    /\ IsRealizationOrder(program.env, program.order)
    /\ Len(dag.edges) >= 1
    /\ \E l \in PipelineLoads(program.env) : ~InEnv(program.env, l[2])

(***************************************************************************)
(* C14.  For a pointwise chain (every Func but the single output is loaded *)
(* by one consumer, once, at the consumer's own coordinates) and beam size *)
(* 1, the schedule returned has one child of the root, the leaf loop nest  *)
(* of the output, with every other Func in its inlined map; no Func but    *)
(* the output is in a store_at set.                                        *)
(***************************************************************************)
\* the loads of the Func named f: << k, j >> with env[k].loads[j].name = f
LoadsOf(env, f) ==
    {kj \in UNION {{<< k, j >> : j \in 1..Len(env[k].loads)} : k \in 1..Len(env)} :
        env[kj[1]].loads[kj[2]].name = f}

IsPointwise(l) ==
    /\ l.calls = 1
    /\ \A i \in 1..Len(l.bounds) : l.bounds[i] = Aff(i, 1, 0, 0)

IsPointwiseChain(prog) ==
    /\ Len(prog.outputs) = 1
    /\ Len(prog.env) >= 2
    /\ \A k \in 1..Len(prog.env) :
           IF prog.env[k].name = prog.outputs[1]
           THEN LoadsOf(prog.env, prog.env[k].name) = {}
           ELSE /\ Cardinality(LoadsOf(prog.env, prog.env[k].name)) = 1
                /\ \A kj \in LoadsOf(prog.env, prog.env[k].name) :
                       IsPointwise(prog.env[kj[1]].loads[kj[2]])

FullyFused(r, output, env) ==
    /\ Len(r.children) = 1
    /\ r.children[1].func = output
    /\ r.children[1].innermost
    /\ r.children[1].children = <<>>
    /\ \A k \in 1..Len(env) :
           env[k].name # output => env[k].name \in DOMAIN r.children[1].inlined
    /\ \A p \in Paths(r) : NodeAt(r, p).store_at \subseteq {output}

C14_PointwiseChainFused ==
    (pc = "done" /\ beam_size = 1 /\ IsPointwiseChain(program)) =>
        FullyFused(returned[1].root, program.outputs[1], program.env)

\* the search with beam size 1 has returned a schedule for a pointwise chain of three Funcs
C14_Witness ==
    /\ pc = "done"
    /\ beam_size = 1
    /\ IsPointwiseChain(program)
    /\ Len(dag.nodes) = 3
    /\ returned[1].num_funcs_scheduled = 3

(***************************************************************************)
(* C16.  At the start of a pass every state of the frontier has            *)
(* num_funcs_scheduled equal to the pass index, and so has every state     *)
(* still pending in the pass; hence a state with every Func scheduled is   *)
(* popped first in its pass, and the state returned has cost <= that of    *)
(* every state of the trimmed frontier of that pass.                       *)
(***************************************************************************)
AllAtDepth(states, depth) ==
    \A i \in 1..Len(states) : states[i].num_funcs_scheduled = depth

C16_FrontierInStep ==
    /\ pass < MaxPasses =>
           /\ pc = "trim" => AllAtDepth(q, pass)
           /\ pc = "drain" => AllAtDepth(pending, pass) /\ AllAtDepth(q, pass + 1)
    /\ pc = "done" =>
           /\ last = "return"
           /\ q = <<>>
           /\ Len(pending) < beam_size
           /\ \A i \in 1..Len(pending) :
                  /\ returned[1].cost <= pending[i].cost
                  /\ pending[i].num_funcs_scheduled = Len(dag.nodes)

\* a state was returned from a final frontier that held another state
C16_Witness ==
    /\ pc = "done"
    /\ pending # <<>>
    /\ pass >= 2
    /\ returned[1].num_funcs_scheduled = pass

(***************************************************************************)
(* C17.  Every tiling t that generate_tilings returns with allow_splits =  *)
(* TRUE has, in every dimension i, t[i] <= ceil(s[i] / t[i]), and in       *)
(* dimension 0 an inner extent ceil(s[0] / t[0]) >= 16.  Checked for the   *)
(* size s of every tileable loop of the tree.                              *)
(***************************************************************************)
SplitIsCoarse(s, t) ==
    /\ \A i \in 1..Len(s) : t[i] <= CeilDiv(s[i], t[i])
    /\ CeilDiv(s[1], t[1]) >= MinInnerExtent

AllCoarse(s, tilings) == \A k \in 1..Len(tilings) : SplitIsCoarse(s, tilings[k])

C17_SplitsKeepVectorWidth ==
    \A p \in Paths(root) \ {<<>>} :
        NodeAt(root, p).tileable =>
            AllCoarse(NodeAt(root, p).size,
                      generate_tilings(NodeAt(root, p).size, Len(NodeAt(root, p).size) - 1, TRUE))

(***************************************************************************)
(* C18.  With allow_splits = FALSE generate_tilings returns each           *)
(* combination of t[i] in {1, s[i]} once, except the one of all ones and   *)
(* the one equal to s; in both modes it returns neither of these two.      *)
(* Checked for the size s of every tileable loop of the tree.              *)
(***************************************************************************)
IsTrivial(s, t) == (\A i \in 1..Len(s) : t[i] = 1) \/ t = s

\* the combinations of t[i] in {1, s[i]}
Corners(s) == {t \in [1..Len(s) -> 1..Max(s[1], s[Len(s)])] :
                  \A i \in 1..Len(s) : t[i] \in {1, s[i]}}

UnsplitTilingsExact(s, tilings) ==
    /\ {tilings[k] : k \in 1..Len(tilings)} = {t \in Corners(s) : ~IsTrivial(s, t)}
    /\ \A k \in 1..Len(tilings) : Count(tilings, tilings[k]) = 1

NoneTrivial(s, tilings) == \A k \in 1..Len(tilings) : ~IsTrivial(s, tilings[k])

C18_TrivialTilingsDropped ==
    \A p \in Paths(root) \ {<<>>} :
        NodeAt(root, p).tileable =>
            /\ UnsplitTilingsExact(NodeAt(root, p).size,
                   generate_tilings(NodeAt(root, p).size, Len(NodeAt(root, p).size) - 1, FALSE))
            /\ NoneTrivial(NodeAt(root, p).size,
                   generate_tilings(NodeAt(root, p).size, Len(NodeAt(root, p).size) - 1, TRUE))

(***************************************************************************)
(* C19.  inline_func(f) returns a tree of the same shape: every node keeps *)
(* its func, size, innermost, tileable, store_at and number of children,   *)
(* and its inlined map, except that an innermost node whose func or        *)
(* inlined Funcs include a consumer of f gains inlined[f] = the sum over   *)
(* the edges f -> c of e.calls * inlined[c] (c inlined there) plus e.calls *)
(* (c the node's func).                                                    *)
(***************************************************************************)
\* the sum over the first k edges of the DAG
RECURSIVE CallsClaimed(_, _, _, _)
CallsClaimed(n, f, d, k) ==
    IF k = 0 THEN 0
    ELSE CallsClaimed(n, f, d, k - 1)
         + (IF d.edges[k].producer = f /\ d.edges[k].consumer \in DOMAIN n.inlined
            THEN d.edges[k].calls * n.inlined[d.edges[k].consumer] ELSE 0)
         + (IF d.edges[k].producer = f /\ d.edges[k].consumer = n.func
            THEN d.edges[k].calls ELSE 0)

ReferencesConsumer(n, f, d) ==
    \E k \in 1..Len(d.edges) :
        /\ d.edges[k].producer = f
        /\ d.edges[k].consumer = n.func \/ d.edges[k].consumer \in DOMAIN n.inlined

\* m is n with f inlined, as the claim describes it
RECURSIVE InlinedAsClaimed(_, _, _, _)
InlinedAsClaimed(n, m, f, d) ==
    /\ m.func = n.func
    /\ m.size = n.size
    /\ m.innermost = n.innermost
    /\ m.tileable = n.tileable
    /\ m.store_at = n.store_at
    /\ Len(m.children) = Len(n.children)
    /\ m.inlined = IF n.innermost /\ ReferencesConsumer(n, f, d)
                   THEN MapPut(n.inlined, f, CallsClaimed(n, f, d, Len(d.edges)))
                   ELSE n.inlined
    /\ \A i \in 1..Len(n.children) : InlinedAsClaimed(n.children[i], m.children[i], f, d)

C19_InlineKeepsShape ==
    [][last' = "inline" => InlinedAsClaimed(root, root', NextFunc(Current, dag), dag)]_vars

\* a Func was inlined into a leaf that had a consumer of it inlined more than once
C19_Witness ==
    /\ last = "inline"
    /\ num_funcs_scheduled >= 2
    /\ \E p \in Paths(root) :
           /\ Cardinality(DOMAIN NodeAt(root, p).inlined) >= 2
           /\ \E f \in DOMAIN NodeAt(root, p).inlined : NodeAt(root, p).inlined[f] >= 2

(***************************************************************************)
(* C20.  For a Func without outgoing edges, with an estimate for each of   *)
(* its dimensions, generate_children produces exactly one successor: the   *)
(* tree with a fresh innermost, tileable leaf of the Func appended to the  *)
(* children of the root, sized to the estimated extents, and the Func      *)
(* added to root.store_at; nothing is inlined and no loop is tiled.        *)
(***************************************************************************)
IsFreshLeaf(leaf, nd) ==
    /\ leaf.func = nd.func
    /\ leaf.innermost
    /\ leaf.tileable
    /\ leaf.children = <<>>
    /\ leaf.inlined = EmptyMap
    /\ leaf.store_at = {}
    /\ Len(leaf.size) = nd.dimensions
    /\ \A i \in 1..nd.dimensions :
           \E k \in 1..Len(nd.estimates) :
               nd.estimates[k].var = i /\ nd.estimates[k].extent = leaf.size[i]

OutputRealizedAtRoot(old, new, nd) ==
    /\ new.store_at = old.store_at \cup {nd.func}
    /\ Len(new.children) = Len(old.children) + 1
    /\ SubSeq(new.children, 1, Len(old.children)) = old.children
    /\ IsFreshLeaf(new.children[Len(new.children)], nd)
    /\ new.inlined = old.inlined
    /\ new.func = old.func

OneSuccessor(st, nd, cs) ==
    /\ Len(cs) = 1
    /\ ~IsError(cs[1])
    /\ cs[1].num_funcs_scheduled = st.num_funcs_scheduled + 1
    /\ OutputRealizedAtRoot(st.root, cs[1].root, nd)

HasEstimates(nd) ==
    \A i \in 1..nd.dimensions : \E k \in 1..Len(nd.estimates) : nd.estimates[k].var = i

C20_OutputRealizedOnce ==
    (/\ CanStep
     /\ outgoing_edges(dag, NextFunc(Current, dag)) = <<>>
     /\ HasEstimates(node_map(dag, NextFunc(Current, dag)))) =>
        OneSuccessor(Current, node_map(dag, NextFunc(Current, dag)),
                     generate_children(Current, dag))

\* one output has its loop at the root and a second output is scheduled next
C20_Witness ==
    /\ CanStep
    /\ num_funcs_scheduled = 1
    /\ Len(root.children) = 1
    /\ outgoing_edges(dag, NextFunc(Current, dag)) = <<>>
    /\ ~IsError(generate_children(Current, dag)[1])

\* an output of prog lacks an estimate on one of its dimensions
LacksEstimate(prog) ==
    \E k \in 1..Len(prog.env) :
        /\ \E o \in 1..Len(prog.outputs) : prog.outputs[o] = prog.env[k].name
        /\ \E i \in 1..prog.env[k].dimensions :
               \A e \in 1..Len(prog.env[k].estimates) : prog.env[k].estimates[e].var # i

\* a Func of prog has an update definition
HasUpdate(prog) == \E k \in 1..Len(prog.env) : prog.env[k].updates

\* C15: when an output lacks a bounds estimate on one of its dimensions or
\* a Func of the pipeline has an update definition, generate_schedules_top_down
\* aborts with an error before apply_schedule runs: the search never
\* returns a schedule and no directive is issued to any Func.
C15_BadInputIssuesNothing ==
    (LacksEstimate(program) \/ HasUpdate(program)) =>
        /\ directives = <<>>
        /\ pc \notin {"done", "applied"}

(***************************************************************************)
(* C21.  Every Func in root.store_at is the func of a direct child of the  *)
(* root: storage is never left at the root while the computation is        *)
(* pushed into a child loop.                                               *)
(***************************************************************************)
C21_RootStoresItsChildren ==
    \A f \in root.store_at : \E i \in 1..Len(root.children) : root.children[i].func = f

\* a Func has been pushed into the loop of a child of the root, another is
\* stored at the root
C21_Witness ==
    /\ root.store_at # {}
    /\ \E i \in 1..Len(root.children) :
           \E j \in 1..Len(root.children[i].children) :
               root.children[i].children[j].func # root.children[i].func

(***************************************************************************)
(* The discounts cost() takes in a tree: for each node (at path here) and  *)
(* each Func f of its store_at, the ratio taken, whether compute_site[f]   *)
(* is the node itself, and the realized and computed extents of f.         *)
(***************************************************************************)
DiscountTaken(f, here, same_site, bounds_realized, bounds_computed, discount) ==
    [func |-> f, path |-> here, same_site |-> same_site, taken |-> discount.ratio,
     realized |-> Extents(bounds_realized.region),
     computed |-> Extents(bounds_computed.region)]

StoredDiscount(site, here, bounds_realized, d, f) ==
    DiscountTaken(f, here, site.path = here, bounds_realized,
                  get_bounds(site.node, f, d),
                  Discount(site, here, bounds_realized, d, f))

StoredDiscounts(r, d, costed) ==
    UNION {{StoredDiscount(costed.compute_site[f], p, get_bounds(NodeAt(r, p), f, d), d, f) :
               f \in NodeAt(r, p).store_at} : p \in Paths(r)}

\* the discounts of the current tree
Discounts ==
    StoredDiscounts(root, dag, cost_of(root, <<>>, dag, EmptyMap, EmptyMap, 1, NullParent))

\* the fractions a and b are equal
SameRatio(a, b) == a[1] * b[2] = a[2] * b[1]

\* the dimensions in which the realized and the computed extents differ
Differing(x) == {i \in 1..Len(x.realized) : x.realized[i] # x.computed[i]}

\* computed extent / realized extent in dimension i
ExtentRatio(x, i) == << x.computed[i], x.realized[i] >>

(***************************************************************************)
(* C22, as stated.  For a Func f in the store_at of a node whose compute   *)
(* site is a different node, the locality discount is computed extent /    *)
(* realized extent at the lowest-index dimension in which the two extents  *)
(* differ; when the compute site is the storing node itself the discount   *)
(* is 1.                                                                   *)
(***************************************************************************)
DiscountAtLowest(x) ==
    IF x.same_site THEN SameRatio(x.taken, << 1, 1 >>)
    ELSE \A i \in Differing(x) :
             (\A j \in Differing(x) : i <= j) => SameRatio(x.taken, ExtentRatio(x, i))

C22_DiscountAtInnermostDifference == \A x \in Discounts : DiscountAtLowest(x)

(***************************************************************************)
(* C22, amended.  For a Func f in the store_at of a node whose compute     *)
(* site is a different node, the locality discount is computed extent /    *)
(* realized extent at the highest-index dimension in which the two extents *)
(* differ, and 1.01 when they differ in none; when the compute site is the *)
(* storing node itself the discount is 1.                                  *)
(***************************************************************************)
DiscountAtHighest(x) ==
    IF x.same_site THEN SameRatio(x.taken, << 1, 1 >>)
    ELSE IF Differing(x) = {} THEN SameRatio(x.taken, << 101, 100 >>)
    ELSE \A i \in Differing(x) :
             (\A j \in Differing(x) : j <= i) => SameRatio(x.taken, ExtentRatio(x, i))

C22_DiscountAtOutermostDifference == \A y \in Discounts : DiscountAtHighest(y)

\* a Func is stored at one loop and computed in a loop inside it, and its
\* extents differ in two dimensions by different ratios
C22_Witness ==
    \E x \in Discounts :
        /\ ~x.same_site
        /\ \E i, j \in Differing(x) : ~SameRatio(ExtentRatio(x, i), ExtentRatio(x, j))

(***************************************************************************)
(* What cost() adds up over a tree: its result; for each node (at path     *)
(* here) and each Func f of its store_at, the compute cost, the memory     *)
(* cost and what the node adds for f; for each entry of an inlined map,    *)
(* what the node adds for it.                                              *)
(***************************************************************************)
\* the argument instances of cost() at the node at path p: the
\* subinstances of its parent
RECURSIVE InstancesAt(_, _)
InstancesAt(r, p) ==
    IF p = <<>> THEN 1
    ELSE Subinstances(NodeAt(r, ParentPath(p)), InstancesAt(r, ParentPath(p)))

StoredBill(f, here, nedges, bill) ==
    [func |-> f, path |-> here, edges |-> nedges, compute_cost |-> bill.compute_cost,
     mem_cost |-> bill.mem_cost, added |-> bill.total]

StoredBills(r, d, costed) ==
    UNION {{StoredBill(f, p, Len(outgoing_edges(d, f)),
                       StoreCost(NodeAt(r, p), p, d, f, costed.compute_site,
                                 costed.overcompute, InstancesAt(r, p))) :
               f \in NodeAt(r, p).store_at} : p \in Paths(r)}

\* the product of the extents of all loops around the node at path p
RECURSIVE AncestorExtents(_, _)
AncestorExtents(r, p) ==
    IF p = <<>> THEN 1
    ELSE AncestorExtents(r, ParentPath(p)) * Product(NodeAt(r, ParentPath(p)).size)

InlinedBill(n, here, d, f, ancestors, instances) ==
    [func |-> f, path |-> here, calls |-> n.inlined[f], size |-> n.size,
     innermost |-> n.innermost, ancestors |-> ancestors, instances |-> instances,
     compute_if_inlined |-> node_map(d, f).compute_if_inlined,
     added |-> InlinedCost(n, d, {f}, Subinstances(n, instances))]

InlinedBills(r, d) ==
    UNION {{InlinedBill(NodeAt(r, p), p, d, f, AncestorExtents(r, p), InstancesAt(r, p)) :
               f \in DOMAIN NodeAt(r, p).inlined} : p \in Paths(r)}

CostTotals(r, d, costed) ==
    [result |-> costed.result, stored |-> StoredBills(r, d, costed),
     inlined |-> InlinedBills(r, d)]

\* the totals of the current tree
Totals ==
    CostTotals(root, dag, cost_of(root, <<>>, dag, EmptyMap, EmptyMap, 1, NullParent))

\* the sum of what the bills bs add
RECURSIVE Added(_)
Added(bs) ==
    IF bs = {} THEN 0
    ELSE (CHOOSE b \in bs : TRUE).added + Added(bs \ {CHOOSE b \in bs : TRUE})

(***************************************************************************)
(* C23, as stated.  For each Func f in a node's store_at the cost          *)
(* recursion adds compute_cost + mem_cost * k to the node's total, k the   *)
(* number of outgoing edges of f; a realized Func without consumers adds   *)
(* no memory cost.                                                         *)
(***************************************************************************)
RECURSIVE BilledPerEdge(_)
BilledPerEdge(bs) ==
    IF bs = {} THEN 0
    ELSE LET b == CHOOSE x \in bs : TRUE
         IN b.compute_cost + b.mem_cost * b.edges + BilledPerEdge(bs \ {b})

PerEdgeOnly(t) == t.result = BilledPerEdge(t.stored) + Added(t.inlined)

C23_MemoryBilledPerEdge == PerEdgeOnly(Totals)

(***************************************************************************)
(* C23, amended.  For each Func f in a node's store_at the cost recursion  *)
(* adds compute_cost + mem_cost * (k + 1) to the node's total, k the       *)
(* number of outgoing edges of f: the memory cost is billed once per       *)
(* outgoing edge and once more, so a realized Func without consumers adds  *)
(* its memory cost once.                                                   *)
(***************************************************************************)
RECURSIVE BilledPerEdgeAndOnce(_)
BilledPerEdgeAndOnce(bs) ==
    IF bs = {} THEN 0
    ELSE LET b == CHOOSE x \in bs : TRUE
         IN b.compute_cost + b.mem_cost * (b.edges + 1) + BilledPerEdgeAndOnce(bs \ {b})

PerEdgeAndOnce(t) == t.result = BilledPerEdgeAndOnce(t.stored) + Added(t.inlined)

C23_MemoryBilledPerEdgeAndOnce == PerEdgeAndOnce(Totals)

\* a Func without consumers and a Func with consumers are both stored,
\* each with a memory cost
BilledBothKinds(t) ==
    /\ \E b \in t.stored : b.edges = 0 /\ b.mem_cost > 0
    /\ \E b \in t.stored : b.edges > 0 /\ b.mem_cost > 0

C23_Witness == BilledBothKinds(Totals)

(***************************************************************************)
(* C24, as stated.  For every node subinstances = instances * product of   *)
(* size[i], instances the product of all ancestor loop extents (1 at the   *)
(* root); each (function, calls) entry of an innermost node's inlined map  *)
(* adds compute_if_inlined * subinstances * calls, for every size[0] >= 1, *)
(* multiple of 16 or not.                                                  *)
(***************************************************************************)
RECURSIVE InlinedExactly(_)
InlinedExactly(bs) ==
    IF bs = {} THEN 0
    ELSE LET b == CHOOSE x \in bs : TRUE
         IN b.compute_if_inlined * (b.ancestors * Product(b.size)) * b.calls * CostScale
            + InlinedExactly(bs \ {b})

ExactIterations(t) == t.result = Added(t.stored) + InlinedExactly(t.inlined)

C24_InlinedCostExact == ExactIterations(Totals)

(***************************************************************************)
(* C24, amended.  For every node subinstances = instances * product of     *)
(* size[i], with size[0] rounded up to the next multiple of 16 in an       *)
(* innermost node, instances the subinstances of the parent (1 at the      *)
(* root); each (function, calls) entry of an innermost node's inlined map  *)
(* adds compute_if_inlined * subinstances * calls with that subinstances.  *)
(***************************************************************************)
\* the iterations of the loops of b, size[0] rounded up to whole vectors
WholeVectors(b) ==
    IF b.innermost
    THEN b.instances * (Product(b.size) \div b.size[1]) * (CeilDiv(b.size[1], 16) * 16)
    ELSE b.instances * Product(b.size)

RECURSIVE InlinedInWholeVectors(_)
InlinedInWholeVectors(bs) ==
    IF bs = {} THEN 0
    ELSE LET b == CHOOSE x \in bs : TRUE
         IN b.compute_if_inlined * WholeVectors(b) * b.calls * CostScale
            + InlinedInWholeVectors(bs \ {b})

VectorIterations(t) ==
    /\ t.result = Added(t.stored) + InlinedInWholeVectors(t.inlined)
    /\ \A b \in t.inlined : b.innermost

C24_InlinedCostInWholeVectors == VectorIterations(Totals)

\* a Func is inlined in an innermost loop inside a loop over tiles, the
\* extent of its dimension 0 not a multiple of 16
InlinedInPartVector(t) ==
    \E b \in t.inlined : b.innermost /\ b.size[1] % 16 # 0 /\ b.ancestors > 1

C24_Witness == InlinedInPartVector(Totals)

(***************************************************************************)
(* Where a realized Func sits in a tree: its loop nodes, the outermost of  *)
(* them, the node P that node is a child of, and the nodes that call it.   *)
(***************************************************************************)
IsPrefix(a, b) == Len(a) <= Len(b) /\ SubSeq(b, 1, Len(a)) = a

LoopsOf(r, f) == {x \in Paths(r) \ {<<>>} : NodeAt(r, x).func = f}

OutermostLoop(r, f) ==
    CHOOSE x \in LoopsOf(r, f) : \A y \in LoopsOf(r, f) : Len(x) <= Len(y)

\* the path of P
ComputedIn(r, f) == ParentPath(OutermostLoop(r, f))

\* the nodes whose func, or a Func of whose inlined map, is a consumer of f
DirectCallers(r, f, d) == {x \in Paths(r) : ReferencesConsumer(NodeAt(r, x), f, d)}

\* every node holding f in store_at is P or an ancestor of P
StoredAround(r, f) == \A x \in StoredAt(r, f) : IsPrefix(x, ComputedIn(r, f))

\* at every node the computation of f was pushed through, the child it
\* went into is the only child that calls f
PushedThroughOnlyCaller(r, f, d) ==
    \A a \in Paths(r) :
        IsProperPrefix(a, ComputedIn(r, f)) =>
            Callers(NodeAt(r, a), f, d) = {ComputedIn(r, f)[Len(a) + 1]}

(***************************************************************************)
(* C25, as stated.  For each realized Func f whose outermost loop node is  *)
(* a child of node P, every node that calls f is P or a descendant of P,   *)
(* every node holding f in store_at is P or an ancestor of P, and the      *)
(* computation is pushed into a child only when exactly one child of the   *)
(* current node calls f.                                                   *)
(***************************************************************************)
C25_CallersInsideComputeSite ==
    \A f \in Realized_funcs(root) :
        /\ \A x \in DirectCallers(root, f, dag) : IsPrefix(ComputedIn(root, f), x)
        /\ StoredAround(root, f)
        /\ PushedThroughOnlyCaller(root, f, dag)

(***************************************************************************)
(* C25, amended.  For each realized Func f whose outermost loop node is a  *)
(* child of node P, every innermost node that calls f is P or a descendant *)
(* of P (a loop over tiles of a consumer may lie outside P), every node    *)
(* holding f in store_at is P or an ancestor of P, and the computation is  *)
(* pushed into a child only when exactly one child of the current node     *)
(* calls f.                                                                *)
(***************************************************************************)
C25_InnermostCallersInsideComputeSite ==
    \A g \in Realized_funcs(root) :
        /\ \A x \in DirectCallers(root, g, dag) :
               NodeAt(root, x).innermost => IsPrefix(ComputedIn(root, g), x)
        /\ StoredAround(root, g)
        /\ PushedThroughOnlyCaller(root, g, dag)

\* a Func has been pushed into a child of a node that is not the root, is
\* stored outside the node it is computed in, and is called by two nodes
C25_Witness ==
    \E f \in Realized_funcs(root) :
        /\ Len(ComputedIn(root, f)) >= 2
        /\ \E x \in StoredAt(root, f) : IsProperPrefix(x, ComputedIn(root, f))
        /\ Cardinality(DirectCallers(root, f, dag)) >= 2

====
